------------------------- MODULE ThrottledNotifier -------------------------
(***************************************************************************)
(* The throttle in front of the file notifier (ThrottledNotifier in        *)
(* notify.rs): its table of times, and what it promises of the events it   *)
(* let through and held back.  Notify has the steps that consult it.       *)
(***************************************************************************)
EXTENDS Integers

CONSTANTS
  Fingerprint, \* per event
  Interval,    \* of the throttle; 0 registers the file notifier without one
  Never        \* the throttle has no time for a fingerprint

VARIABLES
  now,
  last_fired,  \* per registry and fingerprint
  dispatching, \* per thread, the dispatch it is in
  verdicts,    \* history: what the throttle said of events, with registry and time
  lines        \* history: events whose line was appended to the file, or could not be

Elapsed(t) ==
  LET last == last_fired[dispatching[t].registry][Fingerprint[dispatching[t].event]]
  IN  last = Never \/ now - last >= Interval

Verdict(t, passed) ==
  [event |-> dispatching[t].event, registry |-> dispatching[t].registry, at |-> now, passed |-> passed]

\* Mutant: only the first time is kept.
Fired_FirstTime(t) ==
  [last_fired EXCEPT ![dispatching[t].registry][Fingerprint[dispatching[t].event]] = IF @ = Never THEN now ELSE @]

Fired(t) == [last_fired EXCEPT ![dispatching[t].registry][Fingerprint[dispatching[t].event]] = now]

-----------------------------------------------------------------------------
SameSource(x, y) == x.registry = y.registry /\ Fingerprint[x.event] = Fingerprint[y.event]

(* One registry lets one event per fingerprint and interval through to the *)
(* file, however the threads that captured them race (ThrottledNotifier).  *)
OncePerInterval ==
  \A x, y \in verdicts :
    x.passed /\ y.passed /\ x.event # y.event /\ SameSource(x, y) =>
      x.at - y.at >= Interval \/ y.at - x.at >= Interval

(* An event is held back only less than an interval after another one with *)
(* its fingerprint, which has its line in the file, unless writing it      *)
(* failed or is not over: the throttle sets the time before the inner      *)
(* notifier succeeds (ThrottledNotifier::notify, FileNotifier::notify).    *)
HeldBackForALine ==
  \A y \in verdicts : ~y.passed =>
    \E x \in verdicts :
      /\ x.passed /\ SameSource(x, y) /\ y.at - x.at \in 0..Interval - 1
      /\ \/ x.event \in lines.written \cup lines.failed
         \/ \E t \in DOMAIN dispatching : dispatching[t].event = x.event /\ dispatching[t].pc = "inner"
=============================================================================
