--------------------------- MODULE ListenerRegistry ----------------------------
(***************************************************************************)
(* The registry of one-shot listeners: a promise that the first update its *)
(* predicate accepts resolves, and that a timeout, an abort signal,        *)
(* cancel() or clear() rejects before.  Listeners are named by the order   *)
(* of their registration, which is also the order of the Map that holds    *)
(* them; a listener that leaves the Map never comes back to it.            *)
(***************************************************************************)
EXTENDS Naturals, FiniteSets

CONSTANTS
  MaxListeners,   \* bound: calls of register()
  MaxActive,      \* maxActiveListeners
  Signals,        \* abort signals of callers
  Options,        \* options of register(): whether there is a timeout, and a signal or None
  None

ASSUME ListenerRegistryAssumption ==
  /\ MaxListeners \in Nat
  /\ MaxActive \in Nat \ {0}
  /\ None \notin Signals
  /\ Options \subseteq BOOLEAN \X (Signals \cup {None})

VARIABLES
  listeners,  \* how many have registered
  entries,    \* the Map of active listeners
  fate,       \* what each listener's promise settled with
  timers,     \* the listeners whose timeout is armed
  hooks,      \* the signal whose abort event a listener listens to
  aborted     \* the signals that have been aborted

registryVars == <<listeners, entries, fate, timers, hooks, aborted>>

Listener == 1..MaxListeners
Fate == {"none", "pending", "resolved", "rejected"}

RegistryTypeOK ==
  /\ listeners \in 0..MaxListeners
  /\ entries \subseteq 1..listeners
  /\ fate \in [Listener -> Fate]
  /\ timers \subseteq Listener
  /\ hooks \in [Listener -> Signals \cup {None}]
  /\ aborted \subseteq Signals

RegistryInit ==
  /\ listeners = 0
  /\ entries = {}
  /\ fate = [l \in Listener |-> "none"]
  /\ timers = {}
  /\ hooks = [l \in Listener |-> None]
  /\ aborted = {}

\* Slip: the timeout is not cleared.
FinalizeKeepsTimer(gone, why) ==
  /\ entries' = entries \ gone
  /\ fate' = [l \in Listener |-> IF l \in gone THEN why ELSE fate[l]]
  /\ hooks' = [l \in Listener |-> IF l \in gone THEN None ELSE hooks[l]]
  /\ UNCHANGED <<listeners, timers>>

\* finalize() and the promise of listeners that have not settled.
Finalize(gone, why) ==
  /\ entries' = entries \ gone
  /\ fate' = [l \in Listener |-> IF l \in gone THEN why ELSE fate[l]]
  /\ timers' = timers \ gone
  /\ hooks' = [l \in Listener |-> IF l \in gone THEN None ELSE hooks[l]]
  /\ UNCHANGED listeners

\* register(): a signal that is aborted already rejects without entering the Map.
Register(timed, signal) ==
  LET l == listeners + 1
      enters == signal \notin aborted
  IN
  /\ listeners < MaxListeners
  /\ Cardinality(entries) < MaxActive
  /\ listeners' = l
  /\ entries' = IF enters THEN entries \cup {l} ELSE entries
  /\ fate' = [fate EXCEPT ![l] = IF enters THEN "pending" ELSE "rejected"]
  /\ timers' = IF enters /\ timed THEN timers \cup {l} ELSE timers
  /\ hooks' = [hooks EXCEPT ![l] = IF enters THEN signal ELSE None]
  /\ UNCHANGED aborted

\* The callback of setTimeout.
TimeOut(l) ==
  /\ l \in timers
  /\ Finalize({l}, "rejected")
  /\ UNCHANGED aborted

\* handle.cancel(), which does nothing for a listener that has settled.
Cancel(l) ==
  /\ l \in 1..listeners
  /\ fate[l] = "pending"
  /\ Finalize({l}, "rejected")
  /\ UNCHANGED aborted

\* A caller aborts its signal: the listeners hooked to it run at once.
Abort(signal) ==
  /\ signal \in Signals \ aborted
  /\ aborted' = aborted \cup {signal}
  /\ Finalize({l \in Listener : hooks[l] = signal}, "rejected")

\* clear() rejects all that are active.
ClearListeners ==
  /\ entries # {}
  /\ Finalize(entries, "rejected")
  /\ UNCHANGED aborted

\* What user code may call at any time, from a predicate or a handler too.
RegistryCall ==
  \/ \E o \in Options : Register(o[1], o[2])
  \/ \E l \in Listener : Cancel(l)
  \/ \E signal \in Signals : Abort(signal)
  \/ ClearListeners

\* Every pending promise is in the Map, every timer and abort hook belongs to
\* one, and the Map never outgrows its limit.
NothingLeaks ==
  /\ entries = {l \in Listener : fate[l] = "pending"}
  /\ timers \subseteq entries
  /\ \A l \in Listener : hooks[l] # None => l \in entries /\ hooks[l] \notin aborted
  /\ Cardinality(entries) <= MaxActive
=============================================================================
