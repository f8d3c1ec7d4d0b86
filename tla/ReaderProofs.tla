---------------------------- MODULE ReaderProofs ----------------------------
(***************************************************************************)
(* Theorems about Reader, for any events, filters and page length.         *)
(***************************************************************************)
EXTENDS Reader, FiniteSetTheorems, SequenceTheorems, WellFoundedInduction, TLAPS

Cursors == [ts : Int, id : Int]

Typed ==
  /\ pages.next \in {"none", "first", "more"}
  /\ pages.cursor \in Cursors
  /\ pages.got \in [Events -> Nat]
  /\ DOMAIN pages = {"filter", "order", "next", "cursor", "got"}
  /\ "pc" \in DOMAIN call /\ (call.pc = "page" => pages.next # "none")
  /\ live \subseteq Events /\ stayed \subseteq Events

\* What stayed is still found by the search that is under way.
Found == pages.order # "none" => stayed \subseteq Matching(pages.filter)

\* No other event has its millisecond.
Apart(e) == \A d \in Events \ {e} : Time[d] # Time[e]

(***************************************************************************)
(* The cursor divides the events: what comes after it has not been         *)
(* returned yet, what does not and stayed, has.                            *)
(***************************************************************************)
Divided(next, cursor, got, e) ==
  /\ got[e] <= 1
  /\ next = "first" => got[e] = 0
  /\ next = "more" => /\ After(cursor, e) => got[e] = 0
                      /\ ~After(cursor, e) /\ e \in stayed => got[e] = 1
  /\ next = "none" => (e \in stayed => got[e] = 1)

Paged == pages.order = "time" =>
  \A e \in Events : Apart(e) => Divided(pages.next, pages.cursor, pages.got, e)

PagesInv == Typed /\ Found /\ Paged

LEMMA IdleCall == Idle.pc = "idle" /\ "pc" \in DOMAIN Idle
  BY DEF Idle

LEMMA NoPagesFields ==
  /\ NoPages.next = "none" /\ NoPages.order = "none" /\ NoPages.cursor \in Cursors
  /\ NoPages.got = [e \in Events |-> 0]
  /\ DOMAIN NoPages = {"filter", "order", "next", "cursor", "got"}
  BY DEF NoPages, Cursors

LEMMA PagesInit == Init => PagesInv
  BY NoPagesFields, IdleCall DEF Init, PagesInv, Typed, Found, Paged

\* What others write.
LEMMA WrittenStep ==
  ASSUME PagesInv, Written, live' \subseteq Events
  PROVE  PagesInv'
  <1>1. UNCHANGED <<call, pages>> /\ stayed' \subseteq stayed
    BY DEF Written
  <1>2. Typed'
    BY <1>1 DEF PagesInv, Typed
  <1>3. Found'
    BY <1>1 DEF Written, Found
  <1>4. Paged'
    BY <1>1 DEF PagesInv, Paged, Divided, After, Apart
  <1>5. QED
    BY <1>2, <1>3, <1>4 DEF PagesInv

\* Steps that leave the search and the table alone.
LEMMA QuietStep ==
  ASSUME PagesInv, UNCHANGED <<table, pages, stayed>>, "pc" \in DOMAIN call', call'.pc = "page" => pages.next # "none"
  PROVE  PagesInv'
  BY DEF PagesInv, Typed, Found, Paged, Divided, After, Apart, table, Matching, to_sql

\* The search is let go.
LEMMA EndStep ==
  ASSUME PagesInv, UNCHANGED table, pages' = NoPages, stayed' \subseteq Events, "pc" \in DOMAIN call', call'.pc # "page"
  PROVE  PagesInv'
  BY NoPagesFields DEF PagesInv, Typed, Found, Paged, table

LEMMA FirstStep ==
  ASSUME PagesInv, NEW f, NEW order, search_errors(f, order)
  PROVE  PagesInv'
  <1>1. /\ UNCHANGED table /\ stayed' = Matching(f)
        /\ pages' = [NoPages EXCEPT !.filter = f, !.order = order, !.next = "first"]
        /\ "pc" \in DOMAIN call'
    BY IdleCall DEF search_errors, AskForPage, Ask
  <1>2. /\ pages'.filter = f /\ pages'.order = order /\ pages'.next = "first"
        /\ pages'.cursor \in Cursors /\ pages'.got = [e \in Events |-> 0]
        /\ DOMAIN pages' = {"filter", "order", "next", "cursor", "got"}
    BY <1>1, NoPagesFields
  <1>3. Typed'
    BY <1>1, <1>2 DEF PagesInv, Typed, Matching, table
  <1>4. Found'
    BY <1>1, <1>2 DEF Found, Matching, to_sql, table
  <1>5. Paged'
    BY <1>2 DEF Paged, Divided
  <1>6. QED
    BY <1>3, <1>4, <1>5 DEF PagesInv

(***************************************************************************)
(* A page.                                                                 *)
(***************************************************************************)
\* A page that is not full has all the rows.
LEMMA AllRows ==
  ASSUME NEW rows \in SUBSET Events, NEW items \in SUBSET rows, Cardinality(items) = Cardinality(rows)
  PROVE  items = rows
  BY FS_Subset, ReaderAssumption

\* Whether e is divided rightly by the page, in the order of time, after which
\* the search is at an end (items are all rows) or goes on from last.
LEMMA Division ==
  ASSUME Typed, NEW e \in Events, Apart(e), NEW last \in Events, NEW items, NEW cursor \in Cursors,
         NEW got \in [Events -> Nat],
         pages.next \in {"first", "more"}, Divided(pages.next, pages.cursor, pages.got, e),
         pages.next = "first" \/ After(pages.cursor, last),
         cursor.ts = Time[last], cursor.id = Id[last], last \in items,
         got[e] = pages.got[e] + (IF e \in items THEN 1 ELSE 0),
         e \in items => (pages.next = "first" \/ After(pages.cursor, e)) /\ Time[e] >= Time[last],
         e \notin items /\ e \in stayed /\ (pages.next = "first" \/ After(pages.cursor, e)) => Time[last] >= Time[e]
  PROVE  Divided("more", cursor, got, e)
  <1>1. Time[e] \in Int /\ Time[last] \in Int /\ Id[last] \in Int /\ (e # last => Time[e] # Time[last])
    BY ReaderAssumption DEF Apart
  <1>2. After(cursor, e) <=> Time[last] > Time[e]
    BY <1>1 DEF After
  <1>3. pages.got[e] \in Nat /\ got[e] \in Nat /\ pages.cursor.ts \in Int
    BY DEF Typed, Cursors
  <1>4. CASE e \in items
    <2>1. pages.got[e] = 0
      BY <1>4 DEF Divided
    <2>2. QED
      BY <1>1, <1>2, <1>3, <1>4, <2>1 DEF Divided
  <1>5. CASE e \notin items
    <2>1. got[e] = pages.got[e] /\ e # last
      BY <1>3, <1>5
    <2>2. ASSUME After(cursor, e) PROVE pages.got[e] = 0
      <3>1. pages.next = "more" => After(pages.cursor, e)
        BY <1>1, <1>2, <1>3, <2>2 DEF After
      <3>2. QED
        BY <3>1 DEF Divided
    <2>3. ASSUME ~After(cursor, e), e \in stayed PROVE pages.got[e] = 1
      <3>1. ~(Time[last] >= Time[e])
        BY <1>1, <1>2, <2>1, <2>3
      <3>2. pages.next = "more" /\ ~After(pages.cursor, e)
        BY <1>5, <2>3, <3>1
      <3>3. QED
        BY <2>3, <3>2 DEF Divided
    <2>4. QED
      BY <2>1, <2>2, <2>3 DEF Divided
  <1>6. QED
    BY <1>4, <1>5

LEMMA PageStep ==
  ASSUME PagesInv, Page
  PROVE  PagesInv'
  <1> DEFINE rows == {e \in Matching(pages.filter) : pages.next = "first" \/ After(pages.cursor, e)}
             full == Cardinality(rows) > limit
             Got(items) == [e \in Events |-> pages.got[e] + (IF e \in items THEN 1 ELSE 0)]
  <1>1. /\ call.pc = "page" /\ call' = Idle /\ UNCHANGED <<table, stayed>>
        /\ \E items \in SUBSET rows :
           /\ Cardinality(items) = IF full THEN limit ELSE Cardinality(rows)
           /\ \A d \in items, e \in rows \ items : NotAfter(pages.order, d, e)
           /\ \E last \in items \cup {NoEvent} :
                /\ last = NoEvent <=> ~full
                /\ full => \A d \in items : NotAfter(pages.order, d, last)
                /\ pages' = [pages EXCEPT !.next = IF full THEN "more" ELSE "none",
                                          !.cursor = IF full THEN [ts |-> Time[last], id |-> Id[last]] ELSE @,
                                          !.got = [e \in Events |-> @[e] + (IF e \in items THEN 1 ELSE 0)]]
    BY DEF Page
  <1>2. PICK items \in SUBSET rows, last \in Events \cup {NoEvent} :
           /\ last \in items \cup {NoEvent}
           /\ Cardinality(items) = IF full THEN limit ELSE Cardinality(rows)
           /\ \A d \in items, e \in rows \ items : NotAfter(pages.order, d, e)
           /\ last = NoEvent <=> ~full
           /\ full => \A d \in items : NotAfter(pages.order, d, last)
           /\ pages' = [pages EXCEPT !.next = IF full THEN "more" ELSE "none",
                                     !.cursor = IF full THEN [ts |-> Time[last], id |-> Id[last]] ELSE pages.cursor,
                                     !.got = Got(items)]
    BY <1>1 DEF PagesInv, Typed, Matching
  <1>3. rows \subseteq Events /\ rows \subseteq Matching(pages.filter)
    BY DEF PagesInv, Typed, Matching
  <1>4. pages.next \in {"first", "more"} /\ DOMAIN pages = {"filter", "order", "next", "cursor", "got"}
    BY <1>1 DEF PagesInv, Typed
  <1>5. /\ pages'.next = (IF full THEN "more" ELSE "none")
        /\ pages'.cursor = (IF full THEN [ts |-> Time[last], id |-> Id[last]] ELSE pages.cursor)
        /\ pages'.got = Got(items) /\ pages'.filter = pages.filter /\ pages'.order = pages.order
        /\ DOMAIN pages' = {"filter", "order", "next", "cursor", "got"}
    BY <1>2, <1>4
  <1>6. Got(items) \in [Events -> Nat]
    BY DEF PagesInv, Typed
  <1>7. full => last \in items /\ last \in Events /\ last \in rows
    BY <1>2, <1>3
  <1>8. pages'.cursor \in Cursors
    BY <1>5, <1>7, ReaderAssumption DEF PagesInv, Typed, Cursors
  <1>9. Typed'
    BY <1>1, <1>5, <1>6, <1>8, IdleCall DEF PagesInv, Typed, table
  <1>10. Found'
    BY <1>1, <1>5 DEF PagesInv, Found, Matching, to_sql, table
  <1>11. ASSUME pages.order = "time", NEW e \in Events, Apart(e)
         PROVE  Divided(pages'.next, pages'.cursor, pages'.got, e)
    <2>1. Divided(pages.next, pages.cursor, pages.got, e)
      BY <1>11 DEF PagesInv, Paged
    <2>2. e \in items => e \in rows
      BY <1>2
    <2>3. e \in stayed => e \in Matching(pages.filter)
      BY <1>11 DEF PagesInv, Found
    <2>4. Got(items)[e] = pages.got[e] + (IF e \in items THEN 1 ELSE 0)
      OBVIOUS
    <2>5. CASE full
      <3>1. e \in items => Time[e] >= Time[last]
        BY <1>2, <1>11, <2>5 DEF NotAfter
      <3>2. e \in rows \ items => Time[last] >= Time[e]
        BY <1>2, <1>7, <1>11, <2>5 DEF NotAfter
      <3>3. pages'.cursor.ts = Time[last] /\ pages'.cursor.id = Id[last]
        BY <1>5, <2>5
      <3>4. pages.next = "first" \/ After(pages.cursor, last)
        BY <1>7, <2>5
      <3>5. e \in items => pages.next = "first" \/ After(pages.cursor, e)
        BY <2>2
      <3>6. e \notin items /\ e \in stayed /\ (pages.next = "first" \/ After(pages.cursor, e)) => Time[last] >= Time[e]
        BY <2>3, <3>2
      <3> HIDE DEF rows, full, Got
      <3>7. Divided("more", pages'.cursor, Got(items), e)
        BY <1>4, <1>6, <1>7, <1>8, <1>11, <2>1, <2>4, <2>5, <3>1, <3>3, <3>4, <3>5, <3>6, Division DEF PagesInv
      <3>8. QED
        BY <1>5, <2>5, <3>7
    <2>6. CASE ~full
      <3>1. items = rows
        BY <1>2, <1>3, <2>6, AllRows
      <3>2. pages'.next = "none" /\ pages'.got[e] = pages.got[e] + (IF e \in rows THEN 1 ELSE 0)
        BY <1>5, <2>6, <3>1
      <3>3. e \in rows => pages.got[e] = 0
        BY <1>4, <2>1 DEF Divided
      <3>4. e \in stayed /\ e \notin rows => pages.got[e] = 1
        BY <1>4, <2>1, <2>3 DEF Divided
      <3>5. pages.got[e] \in Nat /\ pages.got[e] <= 1
        BY <2>1 DEF PagesInv, Typed, Divided
      <3> HIDE DEF rows, full
      <3>6. QED
        BY <3>2, <3>3, <3>4, <3>5 DEF Divided
    <2>7. QED
      BY <2>5, <2>6
  <1>12. Paged'
    BY <1>1, <1>5, <1>11 DEF Paged, Divided, After, Apart
  <1>13. QED
    BY <1>9, <1>10, <1>12 DEF PagesInv

LEMMA PagesStep == PagesInv /\ [Next]_vars => PagesInv'
  <1> SUFFICES ASSUME PagesInv, [Next]_vars PROVE PagesInv'
    OBVIOUS
  <1>t. live \subseteq Events /\ stayed \subseteq Events
    BY DEF PagesInv, Typed
  <1>1. ASSUME NEW e \in Events, Insert(e) PROVE PagesInv'
    BY <1>1, <1>t, WrittenStep DEF Insert
  <1>2. ASSUME NEW e \in Events, Delete(e) PROVE PagesInv'
    BY <1>2, <1>t, WrittenStep DEF Delete, Forget
  <1>3. ASSUME NEW e \in Events, NEW now \in 0..1, Resolve(e, now) PROVE PagesInv'
    BY <1>3, <1>t, WrittenStep DEF Resolve
  <1>4. ASSUME NEW e \in Events, list_traces(e) PROVE PagesInv'
    <2>1. /\ "pc" \in DOMAIN call' /\ call'.pc # "page"
          /\ UNCHANGED table /\ pages' = NoPages /\ stayed' = live
      BY <1>4 DEF list_traces, Ask, Idle
    <2>2. QED
      BY <2>1, <1>t, EndStep
  <1>5. ASSUME NEW f, NEW order, search_errors(f, order) PROVE PagesInv'
    BY <1>5, FirstStep
  <1>6. CASE next_page
    BY <1>6, QuietStep, IdleCall DEF next_page, AskForPage, Ask
  <1>7. CASE Page
    BY <1>7, PageStep
  <1>8. CASE SelectParent \/ FetchAncestor \/ SelectChildren \/ FetchChild \/ Answer
    <2>1. UNCHANGED <<table, pages, stayed>>
      BY <1>8 DEF SelectParent, FetchAncestor, SelectChildren, FetchChild, Answer, client
    <2>2. "pc" \in DOMAIN call' /\ call'.pc # "page"
      BY <1>8, IdleCall DEF PagesInv, Typed, SelectParent, FetchAncestor, SelectChildren, FetchChild, Answer, Down
    <2>3. QED
      BY <2>1, <2>2, QuietStep
  <1>9. CASE Interrupt
    <2>1. UNCHANGED table /\ "pc" \in DOMAIN call' /\ call'.pc # "page"
      BY <1>9, IdleCall DEF Interrupt
    <2>2. CASE pages.next = "first"
      BY <1>9, <2>1, <2>2, EndStep DEF Interrupt
    <2>3. CASE pages.next # "first"
      BY <1>9, <2>1, <2>3, QuietStep DEF Interrupt
    <2>4. QED
      BY <2>2, <2>3
  <1>10. ASSUME NEW f \in DeleteFilters, DryRun(f) PROVE PagesInv'
    <2>1. UNCHANGED table /\ "pc" \in DOMAIN call' /\ call'.pc # "page" /\ pages' = NoPages /\ stayed' = {}
      BY <1>10, IdleCall DEF DryRun
    <2>2. QED
      BY <2>1, EndStep
  <1>11. ASSUME NEW f \in DeleteFilters, witslog_delete(f) PROVE PagesInv'
    BY <1>11, <1>t, WrittenStep DEF witslog_delete, Forget
  <1>12. CASE UNCHANGED vars
    <2>1. UNCHANGED <<table, pages, stayed, call>>
      BY <1>12 DEF vars, client
    <2>2. QED
      BY <2>1, QuietStep DEF PagesInv, Typed
  <1>13. QED
    BY <1>1, <1>2, <1>3, <1>4, <1>5, <1>6, <1>7, <1>8, <1>9, <1>10, <1>11, <1>12, Zenon DEF Next, Serve

(* Paging to the end in the order of time returns each event that stayed   *)
(* and matched exactly once, for any events (apart in time), filters and   *)
(* pages, whatever others insert, resolve and delete meanwhile (search).   *)
THEOREM PagesAreComplete == Spec => []PagesComplete
  <1>1. PagesInv => PagesComplete
    BY DEF PagesInv, Paged, Divided, PagesComplete, Apart
  <1>2. QED
    BY <1>1, PagesInit, PagesStep, PTL DEF Spec

(***************************************************************************)
(* Traces.                                                                 *)
(***************************************************************************)
LEMMA LeastNumber ==
  ASSUME NEW T, T \subseteq Nat, T # {}
  PROVE  \E x \in T : \A y \in T : x <= y
  <1>1. PICK x \in T : \A y \in T : ~(<<y, x>> \in OpToRel(<, Nat))
    BY WFMin, NatLessThanWellFounded, Zenon
  <1>2. ASSUME NEW y \in T PROVE ~(y < x)
    <2>1. <<y, x>> \notin OpToRel(<, Nat) /\ y \in Nat /\ x \in Nat
      BY <1>1, Zenon
    <2>2. QED
      BY <2>1, Zenon DEF OpToRel
  <1>3. QED
    BY <1>2

\* What holds e and, with an event of S, its parent if in S, holds all that e reaches.
LEMMA ReachesClosed ==
  ASSUME NEW e, NEW a, NEW S, NEW V, Reaches(e, a, S), e \in V,
         \A d \in V \cap S : Parent[d] \in S => Parent[d] \in V
  PROVE  a \in V /\ e \in S /\ a \in S
  <1>0. PICK n \in 1..Cardinality(Events) : \E way \in [1..n -> S] :
          way[1] = e /\ way[n] = a /\ \A i \in 1..n - 1 : way[i + 1] = Parent[way[i]]
    BY DEF Reaches
  <1>1. PICK way \in [1..n -> S] :
          way[1] = e /\ way[n] = a /\ \A i \in 1..n - 1 : way[i + 1] = Parent[way[i]]
    BY <1>0
  <1> DEFINE Out == {i \in 1..n : way[i] \notin V}
  <1>2. Cardinality(Events) \in Nat
    BY FS_CardinalityType, ReaderAssumption
  <1>3. n \in Nat /\ n >= 1 /\ way[1] \in S /\ way[n] \in S
    BY <1>1, <1>2
  <1>4. Out = {}
    <2>1. SUFFICES ASSUME Out # {} PROVE FALSE
      OBVIOUS
    <2>o. Out \subseteq Nat
      BY <1>3
    <2>2. PICK x \in Out : \A y \in Out : x <= y
      <3> HIDE DEF Out
      <3>1. QED
        BY <2>o, <2>1, LeastNumber
    <2>3. x # 1
      BY <1>1, <2>2
    <2>4. x - 1 \in 1..n - 1 /\ x - 1 \in 1..n /\ (x - 1) + 1 = x /\ x \in 1..n
      BY <1>3, <2>2, <2>3
    <2>5. way[x - 1] \in V /\ way[x - 1] \in S
      BY <1>1, <1>3, <2>2, <2>4
    <2>6. way[x] = Parent[way[x - 1]] /\ way[x] \in S
      BY <1>1, <2>4
    <2>7. QED
      BY <2>2, <2>5, <2>6
  <1>5. QED
    BY <1>1, <1>3, <1>4

Items == [event : Events, of : Events \cup {NoEvent}, fetched : BOOLEAN]

CallTyped ==
  /\ call \in [pc : {"idle", "page", "parent", "ancestor", "children"}, root : Events \cup {NoEvent},
               at : Events \cup {NoEvent}, events : SUBSET Events, edges : SUBSET (Events \X Events),
               todo : Seq(Items), cut : BOOLEAN]
  /\ live \subseteq Events

Walking == call.pc \in {"parent", "ancestor", "children"}

\* The events of a trace, the one asked for among them, gone or not.
Seen(c) == c.events \cup {c.root}

\* What holds of every walk.
Linked ==
  /\ call.root \in Events /\ pages.order = "none" /\ stayed \subseteq live
  /\ call.root \in stayed => call.root \in call.events
  /\ \A edge \in call.edges : edge[1] \in Seen(call) /\ edge[2] \in Seen(call)

\* On the way up, all events but the last have their parents in the trace.
Climbing == call.at \in Seen(call) /\ \A d \in Seen(call) \ {call.at} : Parent[d] \in Seen(call)

\* From then on, the trace has the parents of all its events, if they stayed,
\* unless it was cut short.
Climbed(c, S) == c.cut \/ \A d \in Seen(c) \cap S : Parent[d] \in S => Parent[d] \in Seen(c)

\* D is what the walk down has been at: its children stand in it or are to be fetched.
Leads(item, d) ==
  \/ item.fetched = TRUE /\ item.event = Parent[d]
  \/ item.fetched = FALSE /\ item.event = d

Descended(D, c, S) ==
  /\ c.root \in D /\ D \subseteq Seen(c)
  /\ \A item \in Range(c.todo) :
       /\ item.fetched = TRUE => item.event \in D
       /\ item.fetched = FALSE => item.of \in D /\ Parent[item.event] = item.of
  /\ \A d \in S : Parent[d] \in D => d \in D \/ \E item \in Range(c.todo) : Leads(item, d)

TraceInv ==
  /\ CallTyped
  /\ Walking => Linked
  /\ call.pc \in {"parent", "ancestor"} => Climbing
  /\ call.pc = "children" => Climbed(call, stayed) /\ \E D \in SUBSET Events : Descended(D, call, stayed)

LEMMA IdleTyped ==
  Idle \in [pc : {"idle"}, root : {NoEvent}, at : {NoEvent}, events : {{}}, edges : {{}}, todo : {<<>>},
          cut : {FALSE}]
  BY DEF Idle

\* Steps after which no walk is under way.
LEMMA RestStep ==
  ASSUME live' \subseteq Events, call' = Idle \/ call' = [Idle EXCEPT !.pc = "page"]
  PROVE  TraceInv'
  <1>1. /\ call' \in [pc : {"idle", "page"}, root : {NoEvent}, at : {NoEvent}, events : {{}}, edges : {{}}, todo : {<<>>},
                     cut : {FALSE}]
    BY IdleTyped
  <1>2. <<>> \in Seq(Items)
    OBVIOUS
  <1>3. CallTyped' /\ call'.pc \notin {"parent", "ancestor", "children"}
    BY <1>1, <1>2 DEF CallTyped
  <1>4. QED
    BY <1>3 DEF TraceInv, Walking

\* What others write.
LEMMA StayStep ==
  ASSUME TraceInv, UNCHANGED <<call, pages>>, live' \subseteq Events, stayed' \subseteq stayed,
         Walking => stayed' \subseteq live'
  PROVE  TraceInv'
  <1>1. CallTyped'
    BY DEF TraceInv, CallTyped
  <1>2. (Walking => Linked)'
    BY DEF TraceInv, Walking, Linked, Seen
  <1>3. (call.pc \in {"parent", "ancestor"} => Climbing)'
    BY DEF TraceInv, Climbing, Seen
  <1>4. ASSUME call.pc = "children"
        PROVE  Climbed(call', stayed') /\ \E D \in SUBSET Events : Descended(D, call', stayed')
    <2>1. Climbed(call', stayed')
      BY <1>4 DEF TraceInv, Climbed
    <2>2. PICK D \in SUBSET Events : Descended(D, call, stayed)
      BY <1>4 DEF TraceInv
    <2>3. Descended(D, call', stayed')
      BY <2>2 DEF Descended
    <2>4. QED
      BY <2>1, <2>3
  <1>5. QED
    BY <1>1, <1>2, <1>3, <1>4 DEF TraceInv

LEMMA BeginStep ==
  ASSUME TraceInv, NEW e \in Events, list_traces(e)
  PROVE  TraceInv'
  <1>1. /\ call' = [Idle EXCEPT !.pc = "parent", !.root = e, !.at = e, !.events = {e} \cap live]
        /\ pages' = NoPages /\ stayed' = live /\ live' = live
    BY DEF list_traces, Ask, table
  <1>2. <<>> \in Seq(Items)
    OBVIOUS
  <1>3. /\ call'.pc = "parent" /\ call'.root = e /\ call'.at = e /\ call'.events = {e} \cap live /\ call'.edges = {}
        /\ CallTyped'
    BY <1>1, <1>2, IdleTyped DEF CallTyped, TraceInv
  <1>4. (Walking => Linked)'
    BY <1>1, <1>3, NoPagesFields DEF Linked, Seen
  <1>5. Climbing'
    BY <1>3 DEF Climbing, Seen
  <1>6. QED
    BY <1>3, <1>4, <1>5 DEF TraceInv

LEMMA SingleRange ==
  ASSUME NEW x
  PROVE  Range(<<x>>) = {x}
  <1>1. DOMAIN <<x>> = {1} /\ <<x>>[1] = x
    OBVIOUS
  <1>2. QED
    BY <1>1 DEF Range

LEMMA DownFields ==
  ASSUME CallTyped, call.root \in Events
  PROVE  /\ Down(call).pc = "children" /\ Down(call).root = call.root /\ Down(call).at = call.at
         /\ Down(call).events = call.events /\ Down(call).edges = call.edges
         /\ Down(call).todo = << [event |-> call.root, of |-> NoEvent, fetched |-> TRUE] >>
         /\ Down(call) \in [pc : {"children"}, root : Events \cup {NoEvent}, at : Events \cup {NoEvent},
                            events : SUBSET Events, edges : SUBSET (Events \X Events), todo : Seq(Items),
                            cut : BOOLEAN]
  <1>1. << [event |-> call.root, of |-> NoEvent, fetched |-> TRUE] >> \in Seq(Items)
    BY DEF Items
  <1>2. QED
    BY <1>1 DEF Down, CallTyped

\* The way down begins, when the last parent is not among what stayed, or when
\* the way up is cut short.
LEMMA TurnStep ==
  ASSUME TraceInv, call.pc \in {"parent", "ancestor"}, UNCHANGED <<table, client>>,
         \/ call' = Down(call) /\ (call.at \in stayed => Parent[call.at] \notin stayed)
         \/ call' = [Down(call) EXCEPT !.cut = TRUE]
  PROVE  TraceInv'
  <1>1. CallTyped /\ Linked /\ Climbing
    BY DEF TraceInv, Walking
  <1>2. UNCHANGED <<live, pages, stayed>>
    BY DEF table, client
  <1> DEFINE item == [event |-> call.root, of |-> NoEvent, fetched |-> TRUE]
  <1>3. /\ call'.pc = "children" /\ call'.root = call.root /\ Seen(call') = Seen(call)
        /\ call'.events = call.events /\ call'.edges = call.edges /\ call'.todo = <<item>>
        /\ CallTyped' /\ (call'.cut = TRUE \/ (call.at \in stayed => Parent[call.at] \notin stayed))
    BY <1>1, <1>2, DownFields DEF Linked, Seen, CallTyped
  <1>4. Linked'
    BY <1>1, <1>2, <1>3 DEF Linked
  <1>5. Climbed(call', stayed')
    BY <1>1, <1>2, <1>3 DEF Climbing, Climbed
  <1>6. item.event = call.root /\ item.fetched = TRUE
    OBVIOUS
  <1> HIDE DEF item
  <1>r. Range(call'.todo) = {item}
    BY <1>3, SingleRange
  <1>7. \A d \in stayed : Parent[d] = call.root => Leads(item, d)
    BY <1>6 DEF Leads
  <1>8. Descended({call.root}, call', stayed')
    BY <1>2, <1>3, <1>6, <1>7, <1>r DEF Descended, Seen
  <1>9. {call.root} \in SUBSET Events
    BY <1>1 DEF Linked
  <1>10. QED
    BY <1>3, <1>4, <1>5, <1>8, <1>9 DEF TraceInv

LEMMA ParentStep ==
  ASSUME TraceInv, SelectParent
  PROVE  TraceInv'
  <1>1. CallTyped /\ Linked /\ Climbing /\ call.pc = "parent" /\ UNCHANGED <<table, client>>
    BY DEF TraceInv, Walking, SelectParent
  <1>2. CASE call' = [call EXCEPT !.pc = "ancestor"]
    <2>1. call' = [call EXCEPT !.pc = "ancestor"]
      BY <1>2
    <2>2. /\ call'.pc = "ancestor" /\ call'.root = call.root /\ call'.at = call.at /\ call'.events = call.events
          /\ call'.edges = call.edges /\ CallTyped'
      BY <1>1, <2>1 DEF CallTyped, table
    <2>3. UNCHANGED <<live, pages, stayed>>
      BY <1>1 DEF table, client
    <2>4. Linked' /\ Climbing'
      BY <1>1, <2>2, <2>3 DEF Linked, Climbing, Seen
    <2>5. QED
      BY <2>2, <2>4 DEF TraceInv
  <1>3. CASE ~HasParent /\ call' = Down(call)
    <2>1. call.at \in stayed => Parent[call.at] \notin stayed
      BY <1>1, <1>3, ReaderAssumption DEF Linked, CallTyped, HasParent
    <2>2. QED
      BY <1>1, <1>3, <2>1, TurnStep
  <1>4. CASE call' = [Down(call) EXCEPT !.cut = TRUE]
    BY <1>1, <1>4, TurnStep
  <1>5. QED
    BY <1>2, <1>3, <1>4 DEF SelectParent

LEMMA AncestorStep ==
  ASSUME TraceInv, FetchAncestor
  PROVE  TraceInv'
  <1> DEFINE parent == Parent[call.at]
  <1>1. CallTyped /\ Linked /\ Climbing /\ call.pc = "ancestor" /\ UNCHANGED <<table, client>>
    BY DEF TraceInv, Walking, FetchAncestor
  <1>2. UNCHANGED <<live, pages, stayed>>
    BY <1>1 DEF table, client
  <1>3. CASE parent \in live
    <2>1. call' = [call EXCEPT !.pc = "parent", !.at = parent, !.events = call.events \cup {parent},
                               !.edges = call.edges \cup {<<parent, call.at>>}]
      BY <1>3 DEF FetchAncestor
    <2>2. parent \in Events /\ call.at \in Events
      BY <1>1, <1>3 DEF CallTyped, Climbing, Seen, Linked
    <2>3. /\ call'.pc = "parent" /\ call'.root = call.root /\ call'.at = parent
          /\ call'.events = call.events \cup {parent} /\ call'.edges = call.edges \cup {<<parent, call.at>>}
          /\ CallTyped'
      <3>1. call.events \cup {parent} \in SUBSET Events /\ call.edges \cup {<<parent, call.at>>} \in SUBSET (Events \X Events)
        BY <1>1, <2>2 DEF CallTyped
      <3>2. ASSUME NEW ev \in SUBSET Events, NEW ed \in SUBSET (Events \X Events),
                   call' = [call EXCEPT !.pc = "parent", !.at = parent, !.events = ev, !.edges = ed]
            PROVE  /\ call'.pc = "parent" /\ call'.root = call.root /\ call'.at = parent
                   /\ call'.events = ev /\ call'.edges = ed /\ CallTyped'
        BY <1>1, <1>2, <2>2, <3>2 DEF CallTyped
      <3>3. QED
        BY <2>1, <3>1, <3>2
    <2>4. Seen(call') = Seen(call) \cup {parent}
      BY <2>3 DEF Seen
    <2>5. Climbing'
      BY <1>1, <2>3, <2>4 DEF Climbing
    <2>6. \A edge \in call'.edges : edge[1] \in Seen(call') /\ edge[2] \in Seen(call')
      BY <1>1, <2>3, <2>4 DEF Linked, Climbing
    <2>7. Linked'
      BY <1>1, <1>2, <2>3, <2>6 DEF Linked
    <2>8. QED
      BY <2>3, <2>5, <2>7 DEF TraceInv
  <1>4. CASE parent \notin live
    <2>1. call' = Down(call)
      BY <1>4 DEF FetchAncestor
    <2>2. call.at \in stayed => Parent[call.at] \notin stayed
      BY <1>1, <1>4 DEF Linked
    <2>3. QED
      BY <1>1, <2>1, <2>2, TurnStep
  <1>5. QED
    BY <1>3, <1>4

LEMMA ConcatRange ==
  ASSUME NEW X, NEW s \in Seq(X), NEW q \in Seq(X)
  PROVE  Range(s \o q) = Range(s) \cup Range(q)
  <1>1. ASSUME NEW x \in Range(s \o q) PROVE x \in Range(s) \cup Range(q)
    <2>1. PICK i \in 1..Len(s) + Len(q) : x = (s \o q)[i]
      BY DEF Range
    <2>2. CASE i <= Len(s)
      BY <2>1, <2>2 DEF Range
    <2>3. CASE i > Len(s)
      <3>1. i - Len(s) \in 1..Len(q) /\ x = q[i - Len(s)]
        BY <2>1, <2>3
      <3>2. QED
        BY <3>1 DEF Range
    <2>4. QED
      BY <2>1, <2>2, <2>3
  <1>2. ASSUME NEW x \in Range(s) PROVE x \in Range(s \o q)
    <2>1. PICK i \in 1..Len(s) : x = s[i]
      BY DEF Range
    <2>2. i \in 1..Len(s \o q) /\ (s \o q)[i] = x
      BY <2>1
    <2>3. QED
      BY <2>2 DEF Range
  <1>3. ASSUME NEW x \in Range(q) PROVE x \in Range(s \o q)
    <2>1. PICK i \in 1..Len(q) : x = q[i]
      BY DEF Range
    <2>2. i + Len(s) \in 1..Len(s \o q) /\ (s \o q)[i + Len(s)] = x
      BY <2>1
    <2>3. QED
      BY <2>2 DEF Range
  <1>4. QED
    BY <1>1, <1>2, <1>3

LEMMA HeadRange ==
  ASSUME NEW X, NEW s \in Seq(X), s # <<>>
  PROVE  /\ Head(s) \in X /\ Tail(s) \in Seq(X)
         /\ Range(s) = {Head(s)} \cup Range(Tail(s))
  <1>1. Head(s) \in X /\ Tail(s) \in Seq(X) /\ s = <<Head(s)>> \o Tail(s)
    BY HeadTailProperties
  <1>2. Range(<<Head(s)>> \o Tail(s)) = Range(<<Head(s)>>) \cup Range(Tail(s))
    <2>1. <<Head(s)>> \in Seq(X)
      BY <1>1
    <2>2. QED
      BY <1>1, <2>1, ConcatRange, Zenon
  <1>3. QED
    BY <1>1, <1>2, SingleRange

\* A permutation as SetToSeqs has them holds each of the elements.
LEMMA SeqsOfSet ==
  ASSUME NEW S, IsFiniteSet(S), NEW s \in SetToSeqs(S)
  PROVE  s \in Seq(S) /\ Range(s) = S
  <1> DEFINE D == 1..Cardinality(S)
  <1>1. Cardinality(S) \in Nat
    BY FS_CardinalityType
  <1>2. s \in [D -> S] /\ \A i, j \in D : i # j => s[i] # s[j]
    BY DEF SetToSeqs
  <1>3. s \in Injection(D, S)
    BY <1>2 DEF Injection, IsInjective
  <1>4. Cardinality(D) = Cardinality(S)
    BY <1>1, FS_Interval
  <1>5. s \in Surjection(D, S)
    <2> HIDE DEF D
    <2>1. QED
      BY <1>3, <1>4, FS_Injection
  <1>6. s \in Seq(S)
    BY <1>1, <1>2
  <1>7. \A e \in S : \E i \in D : s[i] = e
    BY <1>5 DEF Surjection
  <1>8. QED
    BY <1>2, <1>6, <1>7 DEF Range

\* Steps of the walk down change the items to be done and add what was fetched.
LEMMA DownStep ==
  ASSUME CallTyped, Linked, call.pc = "children", Climbed(call, stayed),
         UNCHANGED <<live, pages, stayed>>,
         NEW D \in SUBSET Events, NEW todo \in Seq(Items), NEW ev \in SUBSET Events, NEW ed \in SUBSET (Events \X Events),
         call' = [call EXCEPT !.events = ev, !.edges = ed, !.todo = todo],
         call.events \subseteq ev,
         \A d \in (ev \ call.events) : Parent[d] \in Seen(call),
         \A edge \in ed \ call.edges : edge[1] \in Seen(call) /\ edge[2] \in ev,
         call.root \in D, D \subseteq Seen(call) \cup ev,
         \A item \in Range(todo) :
           /\ item.fetched = TRUE => item.event \in D
           /\ item.fetched = FALSE => item.of \in D /\ Parent[item.event] = item.of,
         \A d \in stayed : Parent[d] \in D => d \in D \/ \E item \in Range(todo) : Leads(item, d)
  PROVE  TraceInv'
  <1>1. /\ call'.pc = "children" /\ call'.root = call.root
        /\ call'.events = ev /\ call'.edges = ed /\ call'.todo = todo /\ call'.cut = call.cut
        /\ CallTyped'
    BY DEF CallTyped
  <1>2. Seen(call') = Seen(call) \cup ev
    BY <1>1 DEF Seen
  <1>3. \A edge \in call'.edges : edge[1] \in Seen(call') /\ edge[2] \in Seen(call')
    BY <1>1, <1>2 DEF Linked
  <1>4. Linked'
    BY <1>1, <1>3 DEF Linked
  <1>5. Climbed(call', stayed')
    <2>1. ASSUME ~call.cut, NEW d \in Seen(call') \cap stayed, Parent[d] \in stayed PROVE Parent[d] \in Seen(call')
      <3>1. d \in Seen(call) \/ d \in ev \ call.events
        BY <1>2 DEF Seen
      <3>2. QED
        BY <1>2, <2>1, <3>1 DEF Climbed
    <2>2. QED
      BY <1>1, <2>1 DEF Climbed
  <1>6. Descended(D, call', stayed')
    BY <1>1, <1>2 DEF Descended
  <1>7. QED
    BY <1>1, <1>4, <1>5, <1>6 DEF TraceInv

LEMMA ChildrenStep ==
  ASSUME TraceInv, SelectChildren
  PROVE  TraceInv'
  <1> DEFINE parent == Head(call.todo).event
             New(kids) == [i \in DOMAIN kids |-> [event |-> kids[i], of |-> parent, fetched |-> FALSE]]
             Kids == {c \in live : Parent[c] = parent}
  <1>1. /\ CallTyped /\ Linked /\ Climbed(call, stayed) /\ UNCHANGED <<live, pages, stayed>>
        /\ call.pc = "children" /\ call.todo # <<>> /\ Head(call.todo).fetched
    BY DEF TraceInv, Walking, SelectChildren, table, client
  <1>2. PICK kids \in Children(parent) : call' = [call EXCEPT !.todo = New(kids) \o Tail(call.todo)]
    BY DEF SelectChildren
  <1>3. kids \in Seq(Kids) /\ Range(kids) = Kids
    <2>1. kids \in SetToSeqs(Kids)
      BY <1>2 DEF Children
    <2>2. IsFiniteSet(Kids)
      BY <1>1, FS_Subset, ReaderAssumption DEF CallTyped
    <2> HIDE DEF Kids
    <2>3. QED
      BY <2>1, <2>2, SeqsOfSet
  <1>4. /\ Head(call.todo) \in Items /\ Tail(call.todo) \in Seq(Items)
        /\ Range(call.todo) = {Head(call.todo)} \cup Range(Tail(call.todo))
    BY <1>1, HeadRange DEF CallTyped
  <1>5. parent \in Events /\ Head(call.todo).fetched = TRUE
    BY <1>1, <1>4 DEF Items
  <1>6. New(kids) \in Seq(Items)
    <2>1. kids \in Seq(Events)
      BY <1>1, <1>3 DEF CallTyped
    <2>2. \A i \in DOMAIN kids : New(kids)[i] \in Items
      BY <1>5, <2>1 DEF Items
    <2>3. DOMAIN New(kids) = 1..Len(kids) /\ Len(kids) \in Nat
      BY <2>1
    <2>4. QED
      BY <2>2, <2>3
  <1>7. /\ \A item \in Range(New(kids)) : item.event \in Kids /\ item.of = parent /\ item.fetched = FALSE
        /\ \A c \in Kids : \E item \in Range(New(kids)) : item.event = c /\ item.fetched = FALSE
    <2>1. \A item \in Range(New(kids)) : item.event \in Kids /\ item.of = parent /\ item.fetched = FALSE
      BY <1>3 DEF Range
    <2>2. ASSUME NEW c \in Kids PROVE \E item \in Range(New(kids)) : item.event = c /\ item.fetched = FALSE
      <3>1. PICK i \in DOMAIN kids : kids[i] = c
        BY <1>3 DEF Range
      <3>2. New(kids)[i] \in Range(New(kids)) /\ New(kids)[i].event = c /\ New(kids)[i].fetched = FALSE
        BY <3>1 DEF Range
      <3>3. QED
        BY <3>2
    <2>3. QED
      BY <2>1, <2>2
  <1> DEFINE todo == New(kids) \o Tail(call.todo)
  <1>8. todo \in Seq(Items) /\ Range(todo) = Range(New(kids)) \cup Range(Tail(call.todo))
    <2> HIDE DEF New
    <2>1. \A s, q \in Seq(Items) : s \o q \in Seq(Items) /\ Range(s \o q) = Range(s) \cup Range(q)
      BY ConcatRange
    <2>2. QED
      BY <1>4, <1>6, <2>1, Zenon
  <1>9. PICK D \in SUBSET Events : Descended(D, call, stayed)
    BY <1>1 DEF TraceInv
  <1>10. call' = [call EXCEPT !.events = call.events, !.edges = call.edges, !.todo = todo]
    BY <1>1, <1>2 DEF CallTyped
  <1>11. /\ parent \in D
         /\ \A item \in Range(Tail(call.todo)) :
              /\ item.fetched = TRUE => item.event \in D
              /\ item.fetched = FALSE => item.of \in D /\ Parent[item.event] = item.of
    BY <1>4, <1>5, <1>9 DEF Descended
  <1>12. \A item \in Range(todo) :
           /\ item.fetched = TRUE => item.event \in D
           /\ item.fetched = FALSE => item.of \in D /\ Parent[item.event] = item.of
    <2> HIDE DEF New, todo
    <2>1. QED
      BY <1>7, <1>8, <1>11
  <1>13. ASSUME NEW d \in stayed, Parent[d] \in D, d \notin D PROVE \E item \in Range(todo) : Leads(item, d)
    <2>1. PICK item \in Range(call.todo) : Leads(item, d)
      BY <1>9, <1>13 DEF Descended
    <2> HIDE DEF New, todo
    <2>2. CASE item = Head(call.todo)
      <3>1. parent = Parent[d] /\ d \in Kids
        BY <1>1, <1>5, <2>1, <2>2 DEF Leads, Linked
      <3>2. PICK new \in Range(New(kids)) : new.event = d /\ new.fetched = FALSE
        BY <1>7, <3>1
      <3>3. new \in Range(todo) /\ Leads(new, d)
        BY <1>8, <3>2 DEF Leads
      <3>4. QED
        BY <3>3
    <2>3. CASE item # Head(call.todo)
      BY <1>4, <1>8, <2>1, <2>3
    <2>4. QED
      BY <2>2, <2>3
  <1>14. call.events \in SUBSET Events /\ call.edges \in SUBSET (Events \X Events)
    BY <1>1 DEF CallTyped
  <1>15. call.root \in D /\ D \subseteq Seen(call)
    BY <1>9 DEF Descended
  <1> HIDE DEF New, todo
  <1>16. QED
    BY <1>1, <1>8, <1>10, <1>12, <1>13, <1>14, <1>15, DownStep

LEMMA ChildStep ==
  ASSUME TraceInv, FetchChild
  PROVE  TraceInv'
  <1> DEFINE child == Head(call.todo)
  <1>1. /\ CallTyped /\ Linked /\ Climbed(call, stayed) /\ UNCHANGED <<live, pages, stayed>>
        /\ call.pc = "children" /\ call.todo # <<>> /\ ~child.fetched
    BY DEF TraceInv, Walking, FetchChild, table, client
  <1>2. /\ child \in Items /\ Tail(call.todo) \in Seq(Items)
        /\ Range(call.todo) = {child} \cup Range(Tail(call.todo))
    BY <1>1, HeadRange DEF CallTyped
  <1>3. child.event \in Events /\ child.fetched = FALSE
    BY <1>1, <1>2 DEF Items
  <1>4. PICK D \in SUBSET Events : Descended(D, call, stayed)
    BY <1>1 DEF TraceInv
  <1>5. child.of \in D /\ Parent[child.event] = child.of /\ D \subseteq Seen(call) /\ call.root \in D
    BY <1>2, <1>3, <1>4 DEF Descended
  <1>6. \A item \in Range(Tail(call.todo)) :
           /\ item.fetched = TRUE => item.event \in D
           /\ item.fetched = FALSE => item.of \in D /\ Parent[item.event] = item.of
    BY <1>2, <1>4 DEF Descended
  <1>7. call.events \in SUBSET Events /\ call.edges \in SUBSET (Events \X Events)
    BY <1>1 DEF CallTyped
  <1>8. \A d \in stayed : Parent[d] \in D => d \in D \/ Leads(child, d) \/ \E item \in Range(Tail(call.todo)) : Leads(item, d)
    BY <1>2, <1>4 DEF Descended
  <1>9. CASE child.event \in live
    <2> DEFINE new == [child EXCEPT !.fetched = TRUE]
               todo == <<new>> \o Tail(call.todo)
               ev == call.events \cup {child.event}
               ed == call.edges \cup {<<child.of, child.event>>}
               E == D \cup {child.event}
    <2>1. call' = [call EXCEPT !.events = ev, !.edges = ed, !.todo = todo]
      BY <1>9 DEF FetchChild
    <2>2. new \in Items /\ new.fetched = TRUE /\ new.event = child.event
      BY <1>2 DEF Items
    <2>3. todo \in Seq(Items) /\ Range(todo) = {new} \cup Range(Tail(call.todo))
      <3> HIDE DEF new
      <3>1. <<new>> \in Seq(Items) /\ Range(<<new>>) = {new}
        BY <2>2, SingleRange
      <3>2. \A s, q \in Seq(Items) : s \o q \in Seq(Items) /\ Range(s \o q) = Range(s) \cup Range(q)
        BY ConcatRange
      <3>3. Range(<<new>> \o Tail(call.todo)) = Range(<<new>>) \cup Range(Tail(call.todo)) /\ todo \in Seq(Items)
        BY <1>2, <3>1, <3>2, Zenon
      <3>4. QED
        BY <3>1, <3>3
    <2>4. ev \in SUBSET Events /\ ed \in SUBSET (Events \X Events) /\ E \in SUBSET Events
      BY <1>3, <1>5, <1>7
    <2>5. /\ \A d \in ev \ call.events : Parent[d] \in Seen(call)
          /\ \A edge \in ed \ call.edges : edge[1] \in Seen(call) /\ edge[2] \in ev
          /\ call.root \in E /\ E \subseteq Seen(call) \cup ev
      BY <1>5
    <2> HIDE DEF new, todo
    <2>6. \A item \in Range(todo) :
             /\ item.fetched = TRUE => item.event \in E
             /\ item.fetched = FALSE => item.of \in E /\ Parent[item.event] = item.of
      BY <1>6, <2>2, <2>3
    <2>7. ASSUME NEW d \in stayed, Parent[d] \in E PROVE d \in E \/ \E item \in Range(todo) : Leads(item, d)
      <3>1. CASE Parent[d] = child.event
        BY <2>2, <2>3, <3>1 DEF Leads
      <3>2. CASE Parent[d] \in D /\ Leads(child, d)
        BY <1>3, <3>2 DEF Leads
      <3>3. CASE Parent[d] \in D /\ ~Leads(child, d)
        BY <1>8, <2>3, <3>3
      <3>4. QED
        BY <2>7, <3>1, <3>2, <3>3
    <2>8. call.events \subseteq ev
      OBVIOUS
    <2> HIDE DEF ev, ed, E
    <2>9. QED
      BY <1>1, <2>1, <2>3, <2>4, <2>5, <2>6, <2>7, <2>8, DownStep
  <1>10. CASE child.event \notin live
    <2>1. call' = [call EXCEPT !.events = call.events, !.edges = call.edges, !.todo = Tail(call.todo)]
      BY <1>1, <1>10 DEF FetchChild, CallTyped
    <2>2. \A d \in stayed : ~Leads(child, d)
      BY <1>1, <1>3, <1>10 DEF Leads, Linked
    <2>3. QED
      BY <1>1, <1>2, <1>5, <1>6, <1>7, <1>8, <2>1, <2>2, DownStep
  <1>11. QED
    BY <1>9, <1>10

LEMMA TraceStep == TraceInv /\ [Next]_vars => TraceInv'
  <1> SUFFICES ASSUME TraceInv, [Next]_vars PROVE TraceInv'
    OBVIOUS
  <1>t. live \subseteq Events /\ (Walking => pages.order = "none" /\ stayed \subseteq live)
    BY DEF TraceInv, CallTyped, Linked
  <1>w. ASSUME Written, live' \subseteq Events PROVE TraceInv'
    <2>1. UNCHANGED <<call, pages>> /\ stayed' \subseteq stayed /\ (pages.order = "none" => stayed' \subseteq live')
      BY <1>w DEF Written
    <2>2. QED
      BY <1>t, <1>w, <2>1, StayStep
  <1>1. ASSUME NEW e \in Events, Insert(e) PROVE TraceInv'
    BY <1>1, <1>t, <1>w DEF Insert
  <1>2. ASSUME NEW e \in Events, Delete(e) PROVE TraceInv'
    BY <1>2, <1>t, <1>w DEF Delete, Forget
  <1>3. ASSUME NEW e \in Events, NEW now \in 0..1, Resolve(e, now) PROVE TraceInv'
    BY <1>3, <1>t, <1>w DEF Resolve
  <1>4. ASSUME NEW e \in Events, list_traces(e) PROVE TraceInv'
    BY <1>4, BeginStep
  <1>5. ASSUME NEW f, NEW order, search_errors(f, order) PROVE TraceInv'
    BY <1>5, <1>t, RestStep DEF search_errors, AskForPage, Ask, table
  <1>6. CASE next_page
    BY <1>6, <1>t, RestStep DEF next_page, AskForPage, Ask, table
  <1>7. CASE Page \/ Answer \/ Interrupt
    BY <1>7, <1>t, RestStep DEF Page, Answer, Interrupt, table
  <1>8. CASE SelectParent \/ FetchAncestor
    BY <1>8, ParentStep, AncestorStep
  <1>9. CASE SelectChildren \/ FetchChild
    BY <1>9, ChildrenStep, ChildStep
  <1>10. ASSUME NEW f \in DeleteFilters, DryRun(f) PROVE TraceInv'
    BY <1>10, <1>t, RestStep DEF DryRun, table
  <1>11. ASSUME NEW f \in DeleteFilters, witslog_delete(f) PROVE TraceInv'
    BY <1>11, <1>t, <1>w DEF witslog_delete, Forget
  <1>12. CASE UNCHANGED vars
    BY <1>12, <1>t, StayStep DEF vars, table, client
  <1>13. QED
    BY <1>1, <1>2, <1>3, <1>4, <1>5, <1>6, <1>7, <1>8, <1>9, <1>10, <1>11, <1>12, Zenon DEF Next, Serve

LEMMA TraceInit == Init => TraceInv
  <1> SUFFICES ASSUME Init PROVE TraceInv
    OBVIOUS
  <1>1. <<>> \in Seq(Items)
    OBVIOUS
  <1>2. call = Idle /\ live = {}
    BY DEF Init
  <1>3. CallTyped /\ call.pc = "idle"
    BY <1>1, <1>2, IdleTyped DEF CallTyped
  <1>4. QED
    BY <1>3 DEF TraceInv, Walking

(* A trace has every event linked to the one asked for by parents or       *)
(* children that all stayed while it was walked, for any events and any    *)
(* graph of parents, cycles among them, whatever others insert and delete  *)
(* between the SELECTs; upwards, unless a SELECT of a parent failed, which *)
(* the code takes for no parent (by_root_event_id, walk_children).         *)
THEOREM TracesAreComplete == Spec => []TraceComplete
  <1>1. ASSUME TraceInv, Traced PROVE TraceComplete
    <2>1. Linked /\ Climbed(call, stayed) /\ call.todo = <<>>
      BY <1>1 DEF Traced, TraceInv, Walking
    <2>2. PICK D \in SUBSET Events : Descended(D, call, stayed)
      BY <1>1 DEF Traced, TraceInv
    <2>3. \A d \in stayed : Parent[d] \in D => d \in D
      <3>1. Range(call.todo) = {}
        BY <2>1 DEF Range
      <3>2. QED
        BY <2>2, <3>1 DEF Descended
    <2>4. ASSUME ~call.cut, NEW e \in Events, Reaches(call.root, e, stayed) PROVE e \in call.events
      <3>0. call.root \in Seen(call) /\ \A d \in Seen(call) \cap stayed : Parent[d] \in stayed => Parent[d] \in Seen(call)
        BY <2>1, <2>4 DEF Climbed, Seen
      <3>1. e \in Seen(call) /\ e \in stayed
        BY <2>4, <3>0, ReachesClosed
      <3>2. QED
        BY <2>1, <3>1 DEF Linked, Seen
    <2>5. ASSUME NEW e \in Events, Reaches(e, call.root, stayed) PROVE e \in call.events
      <3> DEFINE V == stayed \ D
      <3>1. \A d \in V \cap stayed : Parent[d] \in stayed => Parent[d] \in V
        BY <2>3
      <3>2. e \in stayed
        <4> DEFINE W == Events \cup stayed
        <4>1. e \in W /\ \A d \in W \cap stayed : Parent[d] \in stayed => Parent[d] \in W
          OBVIOUS
        <4> HIDE DEF W, V
        <4>2. QED
          BY <2>5, <4>1, ReachesClosed
      <3>3. e \in D
        <4>1. SUFFICES ASSUME e \in V PROVE FALSE
          BY <3>2
        <4>2. call.root \in V
          <5> HIDE DEF V
          <5>1. QED
            BY <2>5, <3>1, <4>1, ReachesClosed
        <4>3. QED
          BY <2>2, <4>2 DEF Descended
      <3>4. QED
        BY <2>1, <2>2, <3>2, <3>3 DEF Descended, Seen, Linked
    <2>6. QED
      BY <2>1, <2>4, <2>5 DEF TraceComplete, Linked, Seen
  <1>2. TraceInv => TraceComplete
    BY <1>1 DEF TraceComplete
  <1>3. QED
    BY <1>2, TraceInit, TraceStep, PTL DEF Spec
=============================================================================
