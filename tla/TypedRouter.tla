------------------------------ MODULE TypedRouter ------------------------------
(***************************************************************************)
(* The dispatch of an update: the facade asks the listeners, then the      *)
(* router takes a snapshot of its handlers, asks their predicates and runs *)
(* those that match, one after another or all at once.  Predicates run in  *)
(* the turn of the event loop in which the dispatch began, so that no      *)
(* timer and no other dispatch comes between, but they are user code that  *)
(* may register, unregister, cancel, abort and clear.  Handlers are named  *)
(* by their registrationIndex.                                             *)
(***************************************************************************)
EXTENDS ListenerRegistry, Sequences

CONSTANTS
  Dispatches,   \* calls of dispatch()
  MaxHandlers,  \* bound: calls of on()
  Caps          \* values of maxHandlersPerDispatch

ASSUME TypedRouterAssumption ==
  /\ MaxHandlers \in Nat
  /\ Caps \subseteq Nat \ {0}

VARIABLES
  concurrency,  \* the router's mode, "sequential" or "parallel"
  cap,          \* its maxHandlersPerDispatch
  handlers,     \* #nextRegistrationIndex: how many have registered
  live,         \* #entries: those not removed
  job           \* the locals of each dispatch, and how its handlers settled

routerVars == <<concurrency, cap, handlers, live, job>>

Handler == 1..MaxHandlers
Phase == {"idle", "listening", "scanning", "running", "reported"}
Ending == {"running", "ok", "stop", "throw"}

NoJob == [phase |-> "idle", at |-> 0, snapshot |-> {}, matching |-> {}, errors |-> {},
          stopped |-> FALSE, capped |-> FALSE, ran |-> [h \in Handler |-> "none"]]

RouterTypeOK ==
  /\ concurrency \in {"sequential", "parallel"}
  /\ cap \in Caps
  /\ handlers \in 0..MaxHandlers
  /\ live \subseteq 1..handlers
  /\ job \in [Dispatches -> [phase : Phase, at : Nat, snapshot : SUBSET Handler,
       matching : SUBSET Handler, errors : SUBSET Handler, stopped : BOOLEAN, capped : BOOLEAN,
       ran : [Handler -> Ending \cup {"none"}]]]

RouterInit ==
  /\ concurrency \in {"sequential", "parallel"}
  /\ cap \in Caps
  /\ handlers = 0
  /\ live = {}
  /\ job = [d \in Dispatches |-> NoJob]

\* on(), unregister() and clear() of the router.
On ==
  /\ handlers < MaxHandlers
  /\ handlers' = handlers + 1
  /\ live' = live \cup {handlers + 1}

Unregister(h) ==
  /\ h \in live
  /\ live' = live \ {h}
  /\ UNCHANGED handlers

ClearHandlers ==
  /\ live # {}
  /\ live' = {}
  /\ UNCHANGED handlers

RouterCall ==
  /\ On \/ ClearHandlers \/ \E h \in Handler : Unregister(h)
  /\ UNCHANGED <<concurrency, cap, job>>

----------------------------------------------------------------------------
(* A dispatch. *)

First(S) == CHOOSE n \in S : \A m \in S : n <= m

\* Whether a predicate is on the stack: timers and other dispatches wait.
Busy == \E d \in Dispatches : job[d].phase \in {"listening", "scanning"}

\* The next handler of the snapshot whose predicate is asked; none is left: they run.
AskHandlers(j, after) ==
  LET rest == {h \in j.snapshot \cap live : h > after} IN
  IF rest = {} THEN [j EXCEPT !.phase = "running", !.at = 0, !.snapshot = {}]
  ELSE [j EXCEPT !.phase = "scanning", !.at = First(rest)]

\* Slip: the live entries are not copied: handlers that register later are asked.
TakeSnapshotLater(j) == AskHandlers([j EXCEPT !.snapshot = Handler], 0)

\* this.#entries.slice()
TakeSnapshot(j) == AskHandlers([j EXCEPT !.snapshot = live], 0)

\* The next listener that evaluate() asks: the Map is iterated while predicates change it.
AskListeners(j, after) ==
  LET rest == {l \in entries : l > after} IN
  IF rest = {} THEN TakeSnapshot(j)
  ELSE [j EXCEPT !.phase = "listening", !.at = First(rest)]

\* Slip: the limit is off by one.
MatchOneTooMany(j) ==
  IF Cardinality(j.matching) > cap
  THEN [j EXCEPT !.phase = "running", !.at = 0, !.snapshot = {}, !.capped = TRUE]
  ELSE AskHandlers([j EXCEPT !.matching = @ \cup {j.at}], j.at)

\* The predicate of a handler has returned true.
Match(j) ==
  IF Cardinality(j.matching) >= cap
  THEN [j EXCEPT !.phase = "running", !.at = 0, !.snapshot = {}, !.capped = TRUE]
  ELSE AskHandlers([j EXCEPT !.matching = @ \cup {j.at}], j.at)

\* The predicate of a handler has thrown.
Throw(j) == AskHandlers([j EXCEPT !.errors = @ \cup {j.at}], j.at)

\* dispatch() is called.
Begin(d) ==
  /\ job[d].phase = "idle"
  /\ ~ Busy
  /\ job' = [job EXCEPT ![d] = AskListeners(@, 0)]
  /\ UNCHANGED <<concurrency, cap, handlers, live, registryVars>>

\* Slip: evaluate() goes on after a match.
AcceptAndGoOn(d) ==
  /\ job[d].phase = "listening"
  /\ job[d].at \in entries
  /\ Finalize({job[d].at}, "resolved")
  /\ job' = [job EXCEPT ![d] = AskListeners(@, job[d].at)]
  /\ UNCHANGED <<concurrency, cap, handlers, live, aborted>>

\* The predicate of a listener returns true and evaluate() ends.  One that settled
\* its own listener has nothing left to resolve.
ListenerAccepts(d) ==
  /\ job[d].phase = "listening"
  /\ Finalize({job[d].at} \cap entries, "resolved")
  /\ job' = [job EXCEPT ![d] = TakeSnapshot(@)]
  /\ UNCHANGED <<concurrency, cap, handlers, live, aborted>>

\* The predicate of a listener returns false, or throws, which ends evaluate().
ListenerDeclines(d) ==
  /\ job[d].phase = "listening"
  /\ \/ job' = [job EXCEPT ![d] = AskListeners(@, job[d].at)]
     \/ job' = [job EXCEPT ![d] = TakeSnapshot(@)]
  /\ UNCHANGED <<concurrency, cap, handlers, live, registryVars>>

\* The predicate of a handler returns true, returns false or throws.
HandlerPredicate(d) ==
  /\ job[d].phase = "scanning"
  /\ \/ job' = [job EXCEPT ![d] = Match(@)]
     \/ job' = [job EXCEPT ![d] = AskHandlers(@, job[d].at)]
     \/ job' = [job EXCEPT ![d] = Throw(@)]
  /\ UNCHANGED <<concurrency, cap, handlers, live, registryVars>>

RunningNow(d) == {h \in Handler : job[d].ran[h] = "running"}
NotRun(d) == {h \in job[d].matching : job[d].ran[h] = "none"}

\* Handlers are invoked: the next one when none runs, or all at once.
Invoke(d) ==
  /\ job[d].phase = "running"
  /\ RunningNow(d) = {}
  /\ ~ job[d].stopped
  /\ NotRun(d) # {}
  /\ LET now == IF concurrency = "sequential" THEN {First(NotRun(d))} ELSE NotRun(d) IN
     job' = [job EXCEPT ![d].ran = [h \in Handler |-> IF h \in now THEN "running" ELSE @[h]]]
  /\ UNCHANGED <<concurrency, cap, handlers, live, registryVars>>

\* Slip: a handler that throws ends the dispatch.
SettleAndGiveUp(d, h, how) ==
  /\ h \in RunningNow(d)
  /\ job' = [job EXCEPT ![d].ran[h] = how,
                        ![d].errors = IF how = "throw" THEN @ \cup {h} ELSE @,
                        ![d].stopped = @ \/ how \in {"stop", "throw"}]
  /\ UNCHANGED <<concurrency, cap, handlers, live, registryVars>>

\* A handler's promise settles.
Settle(d, h, how) ==
  /\ h \in RunningNow(d)
  /\ job' = [job EXCEPT ![d].ran[h] = how,
                        ![d].errors = IF how = "throw" THEN @ \cup {h} ELSE @,
                        ![d].stopped = @ \/ how = "stop"]
  /\ UNCHANGED <<concurrency, cap, handlers, live, registryVars>>

\* Slip: the report waits for the handlers that a "stop" has left out.
ReportWhenAllRan(d) ==
  /\ job[d].phase = "running"
  /\ RunningNow(d) = {}
  /\ NotRun(d) = {}
  /\ job' = [job EXCEPT ![d] = [NoJob EXCEPT !.phase = "reported"]]
  /\ UNCHANGED <<concurrency, cap, handlers, live, registryVars>>

\* dispatch() resolves with its report.
Report(d) ==
  /\ job[d].phase = "running"
  /\ RunningNow(d) = {}
  /\ job[d].stopped \/ NotRun(d) = {}
  /\ job' = [job EXCEPT ![d] = [NoJob EXCEPT !.phase = "reported"]]
  /\ UNCHANGED <<concurrency, cap, handlers, live, registryVars>>

DispatchStep(d) ==
  \/ ListenerAccepts(d)
  \/ ListenerDeclines(d)
  \/ HandlerPredicate(d)
  \/ Invoke(d)
  \/ \E h \in Handler, how \in Ending \ {"running"} : Settle(d, h, how)
  \/ Report(d)
=============================================================================
