------------------------------- MODULE Notify -------------------------------
(***************************************************************************)
(* Telling the outside world about an event: dispatch_notify               *)
(* (witslog-runtime lib.rs), the registry that fans an event out to its    *)
(* plugins (witslog-plugin lib.rs), and the calls of the throttle in front *)
(* of the file notifier (ThrottledNotifier, notify.rs).                    *)
(*                                                                         *)
(* Every thread that captured an event walks the registry's plugins        *)
(* itself.  The registry the runtime builds has one, the throttled file    *)
(* notifier; any number of others, before and after it, is more than the   *)
(* program has, and costs the theorems nothing.                            *)
(***************************************************************************)
EXTENDS ThrottledNotifier, Sequences, FiniteSets

CONSTANTS
  Threads,
  Events,    \* each is captured at most once
  Loud,      \* those of at least min_severity
  Throttled, \* per plugin, in the order of their calls: TRUE for the throttled file notifier
  MaxTime, MaxArms \* bounds

ASSUME NotifyAssumption ==
  /\ Loud \subseteq Events /\ Throttled \in Seq(BOOLEAN)
  /\ Interval \in Nat /\ MaxTime \in Nat /\ MaxArms \in Nat /\ Never \notin Int

VARIABLES
  armed,  \* which registry is configured; 0 for none
  over    \* history: events whose dispatch has returned

histories == <<verdicts, lines, over>>
vars == <<now, armed, last_fired, dispatching, histories>>

Fingerprints == {Fingerprint[e] : e \in Events}
Idle == [pc |-> "idle", plugin |-> 0, event |-> Never, registry |-> 0]

Init ==
  /\ now = 0
  /\ armed \in {0, 1}
  /\ last_fired = [r \in 0..MaxArms + 1 |-> [f \in Fingerprints |-> Never]]
  /\ dispatching = [t \in Threads |-> Idle]
  /\ verdicts = {} /\ over = {}
  /\ lines = [written |-> {}, failed |-> {}]

Tick ==
  /\ now < MaxTime
  /\ now' = now + 1
  /\ UNCHANGED <<armed, last_fired, dispatching, histories>>

\* A new registry, with a new throttle; captures under way keep the old one.
build_notify_registry ==
  /\ armed \in 1..MaxArms
  /\ armed' = armed + 1
  /\ UNCHANGED <<now, last_fired, dispatching, histories>>

(***************************************************************************)
(* A capture whose write succeeded dispatches, but for the panic hook's,   *)
(* which forces a synchronous write.                                       *)
(***************************************************************************)
dispatch_notify(t, e) ==
  /\ dispatching[t] = Idle
  /\ armed # 0 /\ e \in Loud /\ e \notin over
  /\ \A u \in Threads : dispatching[u].event # e
  /\ dispatching' = [dispatching EXCEPT ![t] = [Idle EXCEPT !.pc = "call", !.plugin = 1, !.event = e, !.registry = armed]]
  /\ UNCHANGED <<now, armed, last_fired, histories>>

\* The plugin has been called and has returned, failed or panicked.
Proceed(t) == dispatching' = [dispatching EXCEPT ![t].plugin = @ + 1, ![t].pc = "call"]

At(t, pc, throttled) ==
  /\ dispatching[t].pc = pc
  /\ dispatching[t].plugin \in 1..Len(Throttled) /\ Throttled[dispatching[t].plugin] = throttled

\* Another plugin: it does its work, fails or panics, which dispatch_event
\* catches and collects; the next one is called.
CallPlugin(t) ==
  /\ At(t, "call", FALSE)
  /\ Proceed(t)
  /\ UNCHANGED <<now, armed, last_fired, histories>>

(***************************************************************************)
(* ThrottledNotifier::notify: the time is looked at and set under its      *)
(* lock, before the inner notifier is called without it.                   *)
(***************************************************************************)
\* Mutant: an event held back starts the interval anew.
Throttle_Sliding(t) ==
  /\ At(t, "call", TRUE)
  /\ verdicts' = verdicts \cup {Verdict(t, Elapsed(t))}
  /\ last_fired' = Fired(t)
  /\ IF Elapsed(t) THEN dispatching' = [dispatching EXCEPT ![t].pc = "inner"] ELSE Proceed(t)
  /\ UNCHANGED <<now, armed, lines, over>>

Throttle(t) ==
  /\ At(t, "call", TRUE)
  /\ verdicts' = verdicts \cup {Verdict(t, Elapsed(t))}
  /\ IF Elapsed(t)
     THEN last_fired' = Fired(t) /\ dispatching' = [dispatching EXCEPT ![t].pc = "inner"]
     ELSE Proceed(t) /\ UNCHANGED last_fired
  /\ UNCHANGED <<now, armed, lines, over>>

\* The line is appended, or the file cannot be written: the registry collects
\* the error and the throttle does not hear of it.
AppendLine(t) ==
  /\ At(t, "inner", TRUE)
  /\ \E outcome \in {"written", "failed"} : lines' = [lines EXCEPT ![outcome] = @ \cup {dispatching[t].event}]
  /\ Proceed(t)
  /\ UNCHANGED <<now, armed, last_fired, verdicts, over>>

Return(t) ==
  /\ dispatching[t].plugin = Len(Throttled) + 1
  /\ over' = over \cup {dispatching[t].event}
  /\ dispatching' = [dispatching EXCEPT ![t] = Idle]
  /\ UNCHANGED <<now, armed, last_fired, verdicts, lines>>

Step(t) == CallPlugin(t) \/ Throttle(t) \/ AppendLine(t) \/ Return(t)

Next ==
  \/ Tick \/ build_notify_registry
  \/ \E t \in Threads : Step(t) \/ \E e \in Events : dispatch_notify(t, e)

Spec == Init /\ [][Next]_vars
=============================================================================
