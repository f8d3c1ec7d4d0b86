------------------------------- MODULE Reader -------------------------------
(***************************************************************************)
(* The query engine (witslog-query) as the MCP server (witslog-mcp) and    *)
(* the CLI's query commands run it: paging through a search, walking the   *)
(* parents and children of an event, previewing and making a delete.       *)
(*                                                                         *)
(* The server answers one request after the other on one connection.  A    *)
(* request is several SELECTs, each with its own view of a database that   *)
(* other processes write.  Requests that are refused before the first      *)
(* statement (unparsable line, unknown tool, schema, from > to) change     *)
(* nothing and are left out, as are the aggregates and the COUNT(star) of  *)
(* a search, whose figures nothing relates to each other.                  *)
(***************************************************************************)
EXTENDS Integers, Sequences, FiniteSets, SequencesExt

CONSTANTS
  Events,
  Time, Id, Rank,  \* per event: its timestamp, its row id, its rank for the text searched for
  severity_rank,   \* per event
  Parent,          \* per event, its parent_event_id: chosen by the caller, or NoEvent
  Filters,         \* that searches are asked for
  DeleteFilters,   \* that deletes are asked for
  limit,           \* rows per page: clamped to 1..200 by search
  NoEvent, Never

ASSUME ReaderAssumption ==
  /\ IsFiniteSet(Events) /\ NoEvent \notin Events /\ Never \notin Int
  /\ \A e \in Events : {Time[e], Id[e], Rank[e]} \subseteq Int /\ Parent[e] \in Events \cup {NoEvent}
  /\ DeleteFilters \subseteq [event : Events \cup {NoEvent}, resolved_before : Int \cup {Never}, force : BOOLEAN]
  /\ limit \in 1..200

VARIABLES
  live,        \* the events in the table
  resolved_at, \* per event
  call,        \* the request under way
  pages,       \* the search the client is paging through
  stayed,      \* history: events that the search or walk under way found at its start, and still would
  promise,     \* history: the last dry run's answer, if nothing was written since
  verdict      \* history: what the last delete removed, and what the dry run before it had promised

table == <<live, resolved_at>>
client == <<pages, stayed, promise, verdict>>
vars == <<table, call, client>>

NoFilter == [severity_min |-> 0, from |-> 0, to |-> 0, resolved |-> "any"]
Idle == [pc |-> "idle", root |-> NoEvent, at |-> NoEvent, events |-> {}, edges |-> {}, todo |-> <<>>, cut |-> FALSE]
NoPages == [filter |-> NoFilter, order |-> "none", next |-> "none", cursor |-> [ts |-> 0, id |-> 0], got |-> [e \in Events |-> 0]]
NoPromise == [filter |-> [force |-> FALSE, resolved_before |-> Never], ids |-> {}]
NoVerdict == [promised |-> {}, ids |-> {}]

Init ==
  /\ live = {}
  /\ resolved_at = [e \in Events |-> Never]
  /\ call = Idle /\ pages = NoPages
  /\ stayed = {}
  /\ promise = NoPromise /\ verdict = NoVerdict

(***************************************************************************)
(* Filters::to_sql: the conjunction of what is given.  severity_min stands *)
(* for itself, the bounds of the time range for themselves, resolved too;  *)
(* the equalities (application, category, ...) are of the same kind.       *)
(***************************************************************************)
to_sql(f, e) ==
  /\ f.severity_min <= severity_rank[e]
  /\ f.from <= Time[e] /\ Time[e] <= f.to
  /\ f.resolved = "any" \/ (f.resolved = "yes" <=> resolved_at[e] # Never)

Matching(f) == {e \in live : to_sql(f, e)}

(***************************************************************************)
(* Other processes.                                                        *)
(***************************************************************************)
Written ==
  /\ UNCHANGED <<call, pages>>
  /\ stayed' = stayed \cap (IF pages.order = "none" THEN live' ELSE Matching(pages.filter)')
  /\ promise' = NoPromise

Insert(e) ==
  /\ e \notin live
  /\ live' = live \cup {e}
  /\ UNCHANGED <<resolved_at, verdict>>
  /\ Written

Resolve(e, now) ==
  /\ e \in live /\ resolved_at[e] = Never
  /\ resolved_at' = [resolved_at EXCEPT ![e] = now]
  /\ UNCHANGED <<live, verdict>>
  /\ Written

Forget(S) ==
  /\ live' = live \ S
  /\ resolved_at' = [e \in Events |-> IF e \in S THEN Never ELSE resolved_at[e]]

Delete(e) ==
  /\ e \in live
  /\ Forget({e})
  /\ UNCHANGED verdict
  /\ Written

(***************************************************************************)
(* search: a page in the order of time or of rank.  The cursor is the      *)
(* timestamp and the row id of the last row, whichever order it came in;   *)
(* SQL leaves the order of equals open.                                    *)
(***************************************************************************)
\* Mutant: the last row is not left out.
After_Inclusive(cursor, e) ==
  cursor.ts > Time[e] \/ (cursor.ts = Time[e] /\ cursor.id >= Id[e])

After(cursor, e) ==
  cursor.ts > Time[e] \/ (cursor.ts = Time[e] /\ cursor.id > Id[e])

NotAfter(order, d, e) == IF order = "time" THEN Time[d] >= Time[e] ELSE Rank[d] <= Rank[e]

\* The client goes on with one thing at a time: what it saw before is let go.
Ask(request) ==
  /\ call = Idle /\ call' = request
  /\ promise' = NoPromise /\ verdict' = NoVerdict
  /\ UNCHANGED table

AskForPage == Ask([Idle EXCEPT !.pc = "page"])

\* A first page, asked for without a cursor, or with one that cannot be
\* decoded: the client is warned that the search begins anew.
search_errors(f, order) ==
  /\ AskForPage
  /\ pages' = [NoPages EXCEPT !.filter = f, !.order = order, !.next = "first"]
  /\ stayed' = Matching(f)

next_page ==
  /\ pages.next = "more"
  /\ AskForPage
  /\ UNCHANGED <<pages, stayed>>

\* limit + 1 rows are fetched, to see whether there are more.
Page ==
  LET rows == {e \in Matching(pages.filter) : pages.next = "first" \/ After(pages.cursor, e)}
      full == Cardinality(rows) > limit
  IN  /\ call.pc = "page"
      /\ \E items \in SUBSET rows :
           /\ Cardinality(items) = IF full THEN limit ELSE Cardinality(rows)
           /\ \A d \in items, e \in rows \ items : NotAfter(pages.order, d, e)
           /\ \E last \in items \cup {NoEvent} :
                /\ last = NoEvent <=> ~full
                /\ full => \A d \in items : NotAfter(pages.order, d, last)
                /\ pages' = [pages EXCEPT !.next = IF full THEN "more" ELSE "none",
                                          !.cursor = IF full THEN [ts |-> Time[last], id |-> Id[last]] ELSE @,
                                          !.got = [e \in Events |-> @[e] + (IF e \in items THEN 1 ELSE 0)]]
      /\ call' = Idle
      /\ UNCHANGED <<table, stayed, promise, verdict>>

(***************************************************************************)
(* by_root_event_id: up the parents, one SELECT for the id and one for the *)
(* event, then down the children, depth first.  The event asked for may be *)
(* gone: a fingerprint keeps the id of a sample that was deleted.          *)
(***************************************************************************)
list_traces(e) ==
  /\ Ask([Idle EXCEPT !.pc = "parent", !.root = e, !.at = e, !.events = {e} \cap live])
  /\ pages' = NoPages /\ stayed' = live

Down(c) == [c EXCEPT !.pc = "children", !.todo = << [event |-> c.root, of |-> NoEvent, fetched |-> TRUE] >>]

HasParent == call.at \in live /\ Parent[call.at] # NoEvent

\* No row is as good as no parent, and so is a failing statement: that cuts the
\* trace short, and the answer does not say so.
SelectParent ==
  /\ call.pc = "parent"
  /\ \/ HasParent /\ call' = [call EXCEPT !.pc = "ancestor"]
     \/ ~HasParent /\ call' = Down(call)
     \/ HasParent /\ call' = [Down(call) EXCEPT !.cut = TRUE]
  /\ UNCHANGED <<table, client>>

\* Mutant: a missing parent is asked for again.
FetchAncestor_Retry ==
  /\ call.pc = "ancestor"
  /\ LET parent == Parent[call.at]
     IN  call' = IF parent \in live
                 THEN [call EXCEPT !.pc = "parent", !.at = parent, !.events = @ \cup {parent},
                                   !.edges = @ \cup {<<parent, call.at>>}]
                 ELSE [call EXCEPT !.pc = "parent"]
  /\ UNCHANGED <<table, client>>

FetchAncestor ==
  /\ call.pc = "ancestor"
  /\ LET parent == Parent[call.at]
     IN  call' = IF parent \in live
                 THEN [call EXCEPT !.pc = "parent", !.at = parent, !.events = @ \cup {parent},
                                   !.edges = @ \cup {<<parent, call.at>>}]
                 ELSE Down(call)
  /\ UNCHANGED <<table, client>>

\* walk_children of an event, and of a child that was fetched: the children by
\* time, those of the same millisecond in any order.
Children(e) == {s \in SetToSeqs({c \in live : Parent[c] = e}) : \A i, j \in DOMAIN s : i < j => Time[s[i]] <= Time[s[j]]}

SelectChildren ==
  /\ call.pc = "children" /\ call.todo # <<>> /\ Head(call.todo).fetched
  /\ LET parent == Head(call.todo).event
     IN  \E kids \in Children(parent) :
           call' = [call EXCEPT !.todo = [i \in DOMAIN kids |-> [event |-> kids[i], of |-> parent, fetched |-> FALSE]] \o Tail(@)]
  /\ UNCHANGED <<table, client>>

\* Mutant: the siblings are forgotten.
FetchChild_Last ==
  /\ call.pc = "children" /\ call.todo # <<>> /\ ~Head(call.todo).fetched
  /\ LET child == Head(call.todo)
     IN  call' = IF child.event \in live
                 THEN [call EXCEPT !.events = @ \cup {child.event}, !.edges = @ \cup {<<child.of, child.event>>},
                                   !.todo = << [child EXCEPT !.fetched = TRUE] >>]
                 ELSE [call EXCEPT !.todo = Tail(@)]
  /\ UNCHANGED <<table, client>>

FetchChild ==
  /\ call.pc = "children" /\ call.todo # <<>> /\ ~Head(call.todo).fetched
  /\ LET child == Head(call.todo)
     IN  call' = IF child.event \in live
                 THEN [call EXCEPT !.events = @ \cup {child.event}, !.edges = @ \cup {<<child.of, child.event>>},
                                   !.todo = << [child EXCEPT !.fetched = TRUE] >> \o Tail(@)]
                 ELSE [call EXCEPT !.todo = Tail(@)]
  /\ UNCHANGED <<table, client>>

\* error_edges, which nothing fills, are added; the events are sorted.
Traced == call.pc = "children" /\ call.todo = <<>>

Answer ==
  /\ Traced
  /\ call' = Idle
  /\ UNCHANGED <<table, client>>

\* Any other statement fails, or is aborted behind the deadline of the request:
\* the answer is an error.
Interrupt ==
  /\ call.pc \in {"page", "ancestor"} \/ (call.pc = "children" /\ call.todo # <<>>)
  /\ call' = Idle
  /\ IF pages.next = "first" THEN pages' = NoPages /\ stayed' = {} ELSE UNCHANGED <<pages, stayed>>
  /\ UNCHANGED <<table, promise, verdict>>

(***************************************************************************)
(* witslog_delete: a dry run answers with a SELECT of its own, a delete    *)
(* with that of the store's writer; its statements per row (AuditStore)    *)
(* are one step here.                                                      *)
(***************************************************************************)
\* What a delete is refused without: one of what chooses events.  A fingerprint
\* chooses as an event id does, and is left out.
Required(f) == f.event # NoEvent \/ f.resolved_before # Never

Chosen(f, e) == f.event \in {NoEvent, e}
Before(f, e) == resolved_at[e] # Never /\ resolved_at[e] <= f.resolved_before

preview_delete(f) ==
  {e \in live : /\ f.force \/ resolved_at[e] # Never
                /\ Chosen(f, e)
                /\ f.resolved_before = Never \/ Before(f, e)}

matching_delete_ids(f) ==
  {e \in live : /\ f.force \/ resolved_at[e] # Never
                /\ Chosen(f, e)
                /\ \/ f.resolved_before = Never \/ Before(f, e)
                   \/ f.force /\ resolved_at[e] = Never}

DryRun(f) ==
  /\ call = Idle /\ Required(f)
  /\ promise' = [filter |-> f, ids |-> preview_delete(f)]
  /\ verdict' = NoVerdict /\ pages' = NoPages /\ stayed' = {}
  /\ UNCHANGED <<table, call>>

witslog_delete(f) ==
  LET ids == matching_delete_ids(f)
  IN  /\ call = Idle /\ Required(f)
      /\ verdict' = IF promise.filter = f THEN [promised |-> promise.ids, ids |-> ids] ELSE NoVerdict
      /\ Forget(ids)
      /\ Written

Serve ==
  \/ Page \/ SelectParent \/ FetchAncestor \/ SelectChildren \/ FetchChild \/ Answer \/ Interrupt

Next ==
  \/ \E e \in Events : Insert(e) \/ Delete(e) \/ list_traces(e) \/ \E now \in 0..1 : Resolve(e, now)
  \/ \E f \in Filters, order \in {"time", "rank"} : search_errors(f, order)
  \/ next_page \/ Serve
  \/ \E f \in DeleteFilters : DryRun(f) \/ witslog_delete(f)

Spec == Init /\ [][Next]_vars

\* A server that has read a request executes its statements.
LiveSpec == Spec /\ WF_vars(Serve)

-----------------------------------------------------------------------------
(* Paging to the end in the order of time returns every event that stayed  *)
(* and matched throughout exactly once, whatever others insert, resolve    *)
(* and delete meanwhile: but for events of the same millisecond, where the *)
(* cursor goes by row ids and the page need not, and not in the order of   *)
(* rank, where the cursor has nothing to do with the page (search).        *)
PagesComplete ==
  pages.order = "time" =>
    \A e \in {x \in Events : \A d \in Events \ {x} : Time[d] # Time[x]} :
      /\ pages.got[e] <= 1
      /\ pages.next = "none" /\ e \in stayed => pages.got[e] = 1

\* The events from e up to the first parent that has none, or that is on the way already.
Upwards(e) ==
  LET up[n \in 0..Cardinality(Events)] ==
        IF n = 0 THEN {e} ELSE up[n - 1] \cup {Parent[d] : d \in up[n - 1] \ {NoEvent}}
  IN  up[Cardinality(Events)] \ {NoEvent}

\* Whether the whole way up from e to a is a way through S.
Reaches(e, a, S) ==
  \E n \in 1..Cardinality(Events) : \E way \in [1..n -> S] :
    way[1] = e /\ way[n] = a /\ \A i \in 1..n - 1 : way[i + 1] = Parent[way[i]]

(* A trace has every event linked to the one asked for by parents or       *)
(* children that all stayed meanwhile, and its edges lead from one event   *)
(* of the trace to another, though others insert and delete meanwhile; the *)
(* one asked for may be gone.  Upwards only if no statement failed on the  *)
(* way: the trace then ends there (by_root_event_id, walk_children).       *)
TraceComplete ==
  Traced =>
    /\ \A e \in Events :
         (~call.cut /\ Reaches(call.root, e, stayed)) \/ Reaches(e, call.root, stayed) => e \in call.events
    /\ \A edge \in call.edges : edge[1] \in call.events \cup {call.root} /\ edge[2] \in call.events \cup {call.root}

(* "Read-only preview of what delete_resolved would delete, mirroring its  *)
(* WHERE clause exactly": a delete that follows a dry run of the same      *)
(* filter, with nothing written in between, deletes what the dry run said  *)
(* (preview_delete, matching_delete_ids).                                  *)
PreviewExact == verdict.promised = verdict.ids

(* A request is answered in the end, unless it walks up from an event that *)
(* is its own ancestor: nothing breaks that cycle (by_root_event_id,       *)
(* serve_stdio).                                                           *)
Circular(e) == e # NoEvent /\ \E a \in Upwards(e) : Parent[a] # NoEvent /\ a \in Upwards(Parent[a])
CallsAnswered == call.pc # "idle" /\ ~Circular(call.root) ~> call.pc = "idle"
=============================================================================
