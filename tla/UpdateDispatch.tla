---------------------------- MODULE UpdateDispatch -----------------------------
(***************************************************************************)
(* The webhook adapter over the facade: the updates of a verified envelope *)
(* are dispatched one after another, the adapter waits for each report and *)
(* answers 200 whatever the handlers did.  Envelopes are handled           *)
(* concurrently, and share the listeners and handlers of the facade.       *)
(***************************************************************************)
EXTENDS TypedRouter

CONSTANTS
  Envelopes,  \* POSTs that were verified and normalized
  MaxUpdates, \* bound: updates of an envelope
  Loads       \* for each envelope, how many updates it carries

ASSUME UpdateDispatchAssumption ==
  /\ MaxUpdates \in Nat
  /\ Loads \subseteq [Envelopes -> 0..MaxUpdates]
  /\ Dispatches = Envelopes \X (1..MaxUpdates)

VARIABLES
  updates,    \* for an envelope, how many updates it carries
  current,    \* for an envelope, the update the loop is at; 0 before it arrives
  answered    \* the envelopes that were answered

adapterVars == <<updates, current, answered>>
vars == <<registryVars, routerVars, adapterVars>>

TypeOK ==
  /\ RegistryTypeOK
  /\ RouterTypeOK
  /\ updates \in Loads
  /\ current \in [Envelopes -> 0..MaxUpdates]
  /\ answered \subseteq Envelopes

Init ==
  /\ RegistryInit
  /\ RouterInit
  /\ updates \in Loads
  /\ current = [e \in Envelopes |-> 0]
  /\ answered = {}

\* Slip: the loop does not await dispatch().
LoopWithoutAwait(e) == current[e] <= updates[e]

\* whatsapp.dispatch(update) of the loop's current update has resolved.
LoopMayGoOn(e) ==
  current[e] > 0 => job[<<e, current[e]>>].phase = "reported"

\* The envelope arrives, or the loop turns to its next update and dispatches it.
DispatchNext(e) ==
  /\ current[e] < updates[e]
  /\ LoopMayGoOn(e)
  /\ current' = [current EXCEPT ![e] = @ + 1]
  /\ Begin(<<e, current[e] + 1>>)
  /\ UNCHANGED <<updates, answered>>

\* The loop is over: 200.
Answer(e) ==
  /\ e \notin answered
  /\ current[e] = updates[e]
  /\ LoopMayGoOn(e)
  /\ answered' = answered \cup {e}
  /\ UNCHANGED <<updates, current, registryVars, routerVars>>

Fire(l) == ~ Busy /\ TimeOut(l) /\ UNCHANGED <<routerVars, adapterVars>>

\* The handling of an envelope goes on: the loop, its dispatches and their handlers.
Handle(e) ==
  \/ DispatchNext(e)
  \/ Answer(e)
  \/ \E i \in 1..MaxUpdates : DispatchStep(<<e, i>>) /\ UNCHANGED adapterVars

Next ==
  \/ \E e \in Envelopes : Handle(e)
  \/ \E l \in Listener : Fire(l)
  \/ RegistryCall /\ UNCHANGED <<routerVars, adapterVars>>
  \/ RouterCall /\ UNCHANGED <<registryVars, adapterVars>>

\* The event loop goes on, predicates return and the promises of handlers settle.
Fairness == \A e \in Envelopes : WF_vars(Handle(e))

Spec == Init /\ [][Next]_vars
FairSpec == Spec /\ Fairness

----------------------------------------------------------------------------
(* Safety. *)

\* An update resolves at most one promise, of a listener that had not settled: the step
\* that resolves it ends the dispatch's evaluate() (listener.ts: first match wins), whatever
\* predicates do to the registry meanwhile.
OneUpdateOneWaiter ==
  [][\A l \in Listener : fate[l] # "resolved" /\ fate'[l] = "resolved" =>
       /\ fate[l] = "pending" /\ \A k \in Listener \ {l} : fate'[k] = fate[k]
       /\ \E d \in Dispatches :
            /\ job[d].phase = "listening" /\ job[d].at = l
            /\ job'[d].phase # "listening"]_vars

\* A promise that has settled never settles again, and its timer, its abort hook and
\* its place in the Map are gone for good.
SettledForGood ==
  [][\A l \in Listener : fate[l] \notin {"none", "pending"} =>
       fate'[l] = fate[l] /\ l \notin entries' \cup timers' /\ hooks'[l] = None]_vars

\* The registries hold what is pending or registered, and nothing else.
RegistriesAreSound == TypeOK /\ NothingLeaks

\* A listener's promise settles once, with an update that no other listener gets.
WaitersSettleOnce == OneUpdateOneWaiter /\ SettledForGood

\* A dispatch runs handlers that matched, at most cap, each at most once; one at a time
\* and in the order of registration when sequential, and none after one that returned "stop".
HandlersRunInOrder ==
  \A d \in Dispatches :
    LET ran == job[d].ran
        begun == {h \in Handler : ran[h] # "none"}
    IN /\ begun \subseteq job[d].matching
       /\ Cardinality(job[d].matching) <= cap
       /\ concurrency = "sequential" =>
            /\ Cardinality(RunningNow(d)) <= 1
            /\ \A h \in begun, k \in job[d].matching : k < h => ran[k] \in {"ok", "throw"}

\* The scan asks the predicate only of handlers that were in the snapshot and are still
\* registered, and only these match, be they unregistered while their own predicate runs;
\* from then on the dispatch is settled, although handlers unregister each other.
SnapshotHolds ==
  [][\A d \in Dispatches :
       LET was == job[d]  is == job'[d] IN
       /\ is.phase = "scanning" /\ is # was => is.at \in live' \cap is.snapshot
       /\ is.phase = "scanning" /\ was.phase # "scanning" => is.snapshot = live
       /\ is.matching \subseteq was.matching \cup (IF was.phase = "scanning" THEN {was.at} ELSE {})
       /\ was.phase = "scanning" => is.snapshot \in {{}, was.snapshot}]_vars

\* The report of a dispatch is true: its errors are the matched handlers that threw and
\* the predicates that threw, stopped says whether a handler returned "stop", nothing is
\* left running, every match has run unless a sequential dispatch was stopped, and a
\* dispatch that left out a match says so.
ReportsAreTrue ==
  [][\A d \in Dispatches : job[d].phase = "running" /\ job'[d].phase = "reported" =>
       LET ended(how) == {h \in Handler : job[d].ran[h] = how} IN
       /\ job[d].errors \cap job[d].matching = ended("throw")
       /\ job[d].stopped = (ended("stop") # {})
       /\ RunningNow(d) = {}
       /\ NotRun(d) = {} \/ (concurrency = "sequential" /\ job[d].stopped)
       /\ job[d].capped => Cardinality(job[d].matching) = cap]_vars

\* The updates of an envelope are dispatched in order, one after the other, and the
\* envelope is answered when each of them has been reported.
EnvelopesInOrder ==
  \A e \in Envelopes :
    /\ \A i, k \in 1..updates[e] : i < k /\ job[<<e, k>>].phase # "idle" =>
         job[<<e, i>>].phase = "reported"
    /\ e \in answered => \A i \in 1..updates[e] : job[<<e, i>>].phase = "reported"

(* Liveness. *)

\* Every envelope is answered, although predicates throw, change the registries they
\* are asked from, and handlers throw or unregister each other.
EveryEnvelopeIsAnswered == \A e \in Envelopes : <>(e \in answered)
=============================================================================
