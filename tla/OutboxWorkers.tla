---------------------------- MODULE OutboxWorkers ----------------------------
(***************************************************************************)
(* Worker processes that drain the outbox: the loop of startOutboxWorker   *)
(* (packages/persistence/src/outboxWorker.ts) around one tick of           *)
(* runOutboxWorkerOnce (outbox.ts), over the table of module Outbox.       *)
(*                                                                         *)
(* Every await is a point where other workers, the clock and the callers   *)
(* of stop() run.  stage[w] names the await w is suspended in:             *)
(*    "claiming"  claimOutboxItems        "succeeding" markOutboxItemSucc. *)
(*    "handling"  the handler             "failing"    markOutboxItemFailed*)
(*    "counting"  countOutboxPending                                       *)
(* "idle" is the loop between two ticks, "off" a process that is not up.   *)
(***************************************************************************)
EXTENDS Outbox

CONSTANTS
  Worker,        \* the worker processes
  Retry,         \* retryDelayMs, in clock units
  MaxSetbacks    \* bound: handler errors, store faults and crashes, in all

ASSUME WorkerAssumption ==
  /\ Retry \in Nat
  /\ MaxSetbacks \in Nat

VARIABLES
  stage,         \* stage[w]: see above
  held,          \* held[w][i]: leaseId of i in the batch still to be handled; 0: none
  cur,           \* cur[w]: the item the tick is at
  lag,           \* lag[w]: clock - options.now of the tick in flight
  inFlight,      \* inFlight[w]
  timer,         \* timer[w]: timerHandle # null
  stopped,       \* stopped[w]: stop() has been called
  returned,      \* returned[w]: the promise of that call is resolved
  gauge,         \* outbox_depth, set by onReport from report.pending
  delivered,     \* history: leases under which the handler of i returned
  setbacks       \* history: setbacks so far

loopVars == <<inFlight, timer, stopped, returned>>
tickVars == <<stage, held, cur, lag>>
vars == <<rowVars, tickVars, loopVars, gauge, delivered, setbacks>>

NoItem == -1
NoneHeld == [i \in Item |-> 0]
Stage == {"off", "idle", "claiming", "handling", "succeeding", "failing", "counting"}

Init ==
  /\ RowsInit
  /\ stage = [w \in Worker |-> "off"]
  /\ held = [w \in Worker |-> NoneHeld]
  /\ cur = [w \in Worker |-> NoItem]
  /\ lag = [w \in Worker |-> 0]
  /\ inFlight = [w \in Worker |-> FALSE]
  /\ timer = [w \in Worker |-> FALSE]
  /\ stopped = [w \in Worker |-> FALSE]
  /\ returned = [w \in Worker |-> FALSE]
  /\ gauge = 0
  /\ delivered = [i \in Item |-> {}]
  /\ setbacks = 0
-----------------------------------------------------------------------------
\* A step that goes wrong, within the bound.
Setback ==
  /\ setbacks < MaxSetbacks
  /\ setbacks' = setbacks + 1

\* Slip: the `finally' re-arms the timer but forgets the promise of stop().
SettleForgetsStop(w) ==
  /\ stage' = [stage EXCEPT ![w] = "idle"]
  /\ held' = [held EXCEPT ![w] = NoneHeld]
  /\ cur' = [cur EXCEPT ![w] = NoItem]
  /\ lag' = [lag EXCEPT ![w] = 0]
  /\ inFlight' = [inFlight EXCEPT ![w] = FALSE]
  /\ timer' = [timer EXCEPT ![w] = ~stopped[w]]
  /\ UNCHANGED <<stopped, returned>>

\* The end of the tick: the `finally' of fire().
Settle(w) ==
  /\ stage' = [stage EXCEPT ![w] = "idle"]
  /\ held' = [held EXCEPT ![w] = NoneHeld]
  /\ cur' = [cur EXCEPT ![w] = NoItem]
  /\ lag' = [lag EXCEPT ![w] = 0]
  /\ inFlight' = [inFlight EXCEPT ![w] = FALSE]
  /\ timer' = [timer EXCEPT ![w] = ~stopped[w]]
  /\ returned' = [returned EXCEPT ![w] = stopped[w]]
  /\ UNCHANGED stopped

\* onReport is called unless the worker has been stopped meanwhile.
Report(w, pending) == gauge' = IF stopped[w] THEN gauge ELSE pending

\* Slip: a store error escapes fire(), and nobody arms the next timer.
AbandonKillsLoop(w) ==
  /\ stage' = [stage EXCEPT ![w] = "idle"]
  /\ held' = [held EXCEPT ![w] = NoneHeld]
  /\ cur' = [cur EXCEPT ![w] = NoItem]
  /\ lag' = [lag EXCEPT ![w] = 0]
  /\ inFlight' = [inFlight EXCEPT ![w] = FALSE]
  /\ Report(w, 0)
  /\ UNCHANGED <<timer, stopped, returned>>

\* A store error that leaves runOutboxWorkerOnce ends the tick: the rest of
\* the batch is dropped and a report of zeros is made up.
Abandon(w) == Settle(w) /\ Report(w, 0)

\* The for loop moves on to the first claimed row of `left', if any.
TakeNext(w, left) ==
  /\ held' = [held EXCEPT ![w] = left]
  /\ \/ /\ \A i \in Item : left[i] = 0
        /\ cur' = [cur EXCEPT ![w] = NoItem]
        /\ stage' = [stage EXCEPT ![w] = "counting"]
     \/ \E i \in Item :
          /\ left[i] # 0
          /\ \A j \in Item : left[j] # 0 => i <= j
          /\ cur' = [cur EXCEPT ![w] = i]
          /\ stage' = [stage EXCEPT ![w] = "handling"]
  /\ UNCHANGED <<lag, loopVars>>

DoneWith(w) == TakeNext(w, [held[w] EXCEPT ![cur[w]] = 0])

MoveTo(w, s) ==
  /\ stage' = [stage EXCEPT ![w] = s]
  /\ UNCHANGED <<held, cur, lag, loopVars>>

\* The row leased to w, and what w presents when it marks it.
LeaseOf(w) == held[w][cur[w]]
-----------------------------------------------------------------------------
\* The process comes up, calls startOutboxWorker and arms the first timer.
Start(w) ==
  /\ stage[w] = "off"
  /\ stage' = [stage EXCEPT ![w] = "idle"]
  /\ timer' = [timer EXCEPT ![w] = TRUE]
  /\ stopped' = [stopped EXCEPT ![w] = FALSE]
  /\ returned' = [returned EXCEPT ![w] = FALSE]
  /\ UNCHANGED <<rowVars, held, cur, lag, inFlight, gauge, delivered, setbacks>>

\* fire(), up to the first await: now() is read here, once for the tick.
Fire(w) ==
  /\ timer[w]
  /\ timer' = [timer EXCEPT ![w] = FALSE]
  /\ IF stopped[w] \/ inFlight[w]
     THEN UNCHANGED <<stage, inFlight>>
     ELSE /\ stage' = [stage EXCEPT ![w] = "claiming"]
          /\ inFlight' = [inFlight EXCEPT ![w] = TRUE]
  /\ UNCHANGED <<rowVars, held, cur, lag, stopped, returned, gauge, delivered, setbacks>>

\* Rows a claim of w may not see: another one has locked them.
MayHide(w, hidden) ==
  hidden = {} \/ \E v \in Worker \ {w} : stage[v] = "claiming"

\* A locked row is missed only if the claim that locked it is rolled back:
\* had it been committed, it would simply have come first.
ClaimReturns(w) ==
  /\ stage[w] = "claiming"
  /\ \E S, hidden \in SUBSET Item :
       /\ MayHide(w, hidden)
       /\ IF hidden = {} THEN UNCHANGED setbacks ELSE Setback
       /\ Claim(S, lag[w], hidden)
       /\ TakeNext(w, [i \in Item |-> IF i \in S THEN lease[i] + 1 ELSE 0])
  /\ UNCHANGED <<gauge, delivered>>

\* The claim throws: rolled back, or committed with the answer lost.
ClaimThrows(w) ==
  /\ stage[w] = "claiming"
  /\ Setback
  /\ \/ UNCHANGED rowVars
     \/ \E S, hidden \in SUBSET Item :
          MayHide(w, hidden) /\ Claim(S, lag[w], hidden)
  /\ Abandon(w)
  /\ UNCHANGED delivered

HandlerReturns(w) ==
  /\ stage[w] = "handling"
  /\ delivered' = [delivered EXCEPT ![cur[w]] = @ \cup {LeaseOf(w)}]
  /\ MoveTo(w, "succeeding")
  /\ UNCHANGED <<rowVars, gauge, setbacks>>

HandlerThrows(w) ==
  /\ stage[w] = "handling"
  /\ Setback
  /\ MoveTo(w, "failing")
  /\ UNCHANGED <<rowVars, gauge, delivered>>

\* Slip: the loop goes on without marking the row.
SuccessIsNotMarked(w) ==
  /\ stage[w] = "succeeding"
  /\ HoldsLease(cur[w], LeaseOf(w))
  /\ DoneWith(w)
  /\ UNCHANGED <<rowVars, gauge, delivered, setbacks>>

SuccessIsMarked(w) ==
  /\ stage[w] = "succeeding"
  /\ MarkSucceeded(cur[w], LeaseOf(w))
  /\ DoneWith(w)
  /\ UNCHANGED <<gauge, delivered, setbacks>>

\* "lease is stale" is thrown inside the try, so the catch marks a failure.
SuccessIsStale(w) ==
  /\ stage[w] = "succeeding"
  /\ ~HoldsLease(cur[w], LeaseOf(w))
  /\ MoveTo(w, "failing")
  /\ UNCHANGED <<rowVars, gauge, delivered, setbacks>>

\* The statement fails, or takes effect and its answer is lost.
SuccessThrows(w) ==
  /\ stage[w] = "succeeding"
  /\ Setback
  /\ \/ UNCHANGED rowVars
     \/ MarkSucceeded(cur[w], LeaseOf(w))
  /\ MoveTo(w, "failing")
  /\ UNCHANGED <<gauge, delivered>>

\* next_attempt_at is the start of the tick plus retryDelayMs.
FailureIsMarked(w) ==
  /\ stage[w] = "failing"
  /\ MarkFailed(cur[w], LeaseOf(w), Retry - lag[w])
  /\ DoneWith(w)
  /\ UNCHANGED <<gauge, delivered, setbacks>>

\* Thrown inside the catch: it leaves runOutboxWorkerOnce.
FailureIsStale(w) ==
  /\ stage[w] = "failing"
  /\ ~HoldsLease(cur[w], LeaseOf(w))
  /\ Abandon(w)
  /\ UNCHANGED <<rowVars, delivered, setbacks>>

FailureThrows(w) ==
  /\ stage[w] = "failing"
  /\ Setback
  /\ \/ UNCHANGED rowVars
     \/ MarkFailed(cur[w], LeaseOf(w), Retry - lag[w])
  /\ Abandon(w)
  /\ UNCHANGED delivered

\* The count, the report and the end of the tick.
CountReturns(w) ==
  /\ stage[w] = "counting"
  /\ Settle(w)
  /\ Report(w, PendingCount)
  /\ UNCHANGED <<rowVars, delivered, setbacks>>

CountThrows(w) ==
  /\ stage[w] = "counting"
  /\ Setback
  /\ Abandon(w)
  /\ UNCHANGED <<rowVars, delivered>>

\* The first stop(); a second call returns at once and changes nothing.
Stop(w) ==
  /\ stage[w] # "off" /\ ~stopped[w]
  /\ stopped' = [stopped EXCEPT ![w] = TRUE]
  /\ timer' = [timer EXCEPT ![w] = FALSE]
  /\ returned' = [returned EXCEPT ![w] = ~inFlight[w]]
  /\ UNCHANGED <<rowVars, tickVars, inFlight, gauge, delivered, setbacks>>

\* The process dies; what it had claimed stays "processing".
Crash(w) ==
  /\ stage[w] # "off"
  /\ Setback
  /\ stage' = [stage EXCEPT ![w] = "off"]
  /\ held' = [held EXCEPT ![w] = NoneHeld]
  /\ cur' = [cur EXCEPT ![w] = NoItem]
  /\ lag' = [lag EXCEPT ![w] = 0]
  /\ inFlight' = [inFlight EXCEPT ![w] = FALSE]
  /\ timer' = [timer EXCEPT ![w] = FALSE]
  /\ UNCHANGED <<rowVars, stopped, returned, gauge, delivered>>

\* Time passes.  MaxLag bounds how long a tick may take.
Advance ==
  /\ \A w \in Worker : inFlight[w] => lag[w] < MaxLag
  /\ Age
  /\ lag' = [w \in Worker |-> IF inFlight[w] THEN lag[w] + 1 ELSE lag[w]]
  /\ UNCHANGED <<stage, held, cur, loopVars, gauge, delivered, setbacks>>

\* A caller of enqueueOutboxItem.
Submit(i, d) ==
  /\ Enqueue(i, d)
  /\ UNCHANGED <<tickVars, loopVars, gauge, delivered, setbacks>>

Tick(w) ==
  \/ ClaimReturns(w) \/ ClaimThrows(w)
  \/ HandlerReturns(w) \/ HandlerThrows(w)
  \/ SuccessIsMarked(w) \/ SuccessIsStale(w) \/ SuccessThrows(w)
  \/ FailureIsMarked(w) \/ FailureIsStale(w) \/ FailureThrows(w)
  \/ CountReturns(w) \/ CountThrows(w)

Next ==
  \/ \E w \in Worker : Start(w) \/ Fire(w) \/ Tick(w) \/ Stop(w) \/ Crash(w)
  \/ \E i \in Item, d \in Delays : Submit(i, d)
  \/ Advance

Spec == Init /\ [][Next]_vars

(***************************************************************************)
(* The event loop runs a due timer and resumes a settled await, the clock  *)
(* moves, and the store and the application's handler answer each call.    *)
(* Nothing is assumed of enqueuers, of stop(), of crashes, of restarts, or *)
(* of the outcome of an answer beyond the bound MaxSetbacks.               *)
(***************************************************************************)
Fairness ==
  /\ WF_vars(Advance)
  /\ \A w \in Worker : WF_vars(Fire(w)) /\ WF_vars(Tick(w))

FairSpec == Spec /\ Fairness
-----------------------------------------------------------------------------
(* Correctness *)

TypeOK ==
  /\ RowsTypeOK
  /\ stage \in [Worker -> Stage]
  /\ held \in [Worker -> [Item -> Nat]]
  /\ cur \in [Worker -> Item \cup {NoItem}]
  /\ lag \in [Worker -> 0 .. MaxLag]
  /\ inFlight \in [Worker -> BOOLEAN]
  /\ timer \in [Worker -> BOOLEAN]
  /\ stopped \in [Worker -> BOOLEAN]
  /\ returned \in [Worker -> BOOLEAN]
  /\ gauge \in Nat
  /\ delivered \in [Item -> SUBSET Nat]
  /\ setbacks \in Nat

\* The lease id is a fencing token: what two workers still hold of one row
\* they hold under different ids, and nobody is ahead of the table.
LeasesAreFenced ==
  \A w \in Worker, i \in Item : held[w][i] # 0 =>
    /\ held[w][i] <= lease[i]
    /\ \A v \in Worker \ {w} : held[v][i] # held[w][i]

\* A row is taken from a worker that is still at its batch only once the
\* lease has run out, counted from the start of that worker's tick.
SupersededOnlyAfterExpiry ==
  \A w \in Worker, i \in Item :
    held[w][i] # 0 /\ held[w][i] < lease[i] => lag[w] >= Lease

\* "Stale workers cannot mark a newer reclaimed lease": whoever marked the
\* row had seen the handler return under the lease the row carries.
SucceededUnderItsOwnLease ==
  \A i \in Item : status[i] = "succeeded" => lease[i] \in delivered[i]

\* No tick, however it ends, kills the loop or doubles it: until stop() a
\* worker either waits for its timer or has exactly one tick in flight.
LoopStaysAlive ==
  \A w \in Worker :
    /\ inFlight[w] <=> stage[w] \notin {"off", "idle"}
    /\ stage[w] # "off" /\ ~stopped[w] => (timer[w] <=> ~inFlight[w])

\* Once the promise of stop() has resolved the worker makes no further call
\* to the store or the handler; until then a tick is still in flight.
StopDrains ==
  \A w \in Worker : stage[w] # "off" /\ stopped[w] =>
    /\ ~timer[w]
    /\ returned[w] <=> ~inFlight[w]

\* Leases protect a row from workers that have lost it, and from no others.
LeasesProtect ==
  LeasesAreFenced /\ SupersededOnlyAfterExpiry /\ SucceededUnderItsOwnLease

\* One tick at a time, always another to come, and none after stop().
LoopIsSound == LoopStaysAlive /\ StopDrains

\* While every tick fits in its lease, an item is claimed again only because
\* something failed: never merely because several workers run.
ReclaimsAreSetbacks ==
  MaxLag < Lease => \A i \in Item : lease[i] <= setbacks + 1

\* A succeeded row is final: no stale mark, re-enqueue or reclaim touches it.
SucceededIsFinal ==
  [][\A i \in Item : status[i] = "succeeded" =>
       status'[i] = "succeeded" /\ lease'[i] = lease[i]]_vars

\* The table, its leases and the deliveries implement the leased queue.
StandsFor ==
  [absent |-> "absent", pending |-> "queued", processing |-> "held", succeeded |-> "done"]

QueueState == [i \in Item |-> StandsFor[status[i]]]

Queue == INSTANCE LeasedQueue WITH state <- QueueState, token <- lease

ImplementsLeasedQueue == Queue!Spec

\* Nobody is left to drain the outbox.
NobodyWorks == \A w \in Worker : stage[w] = "off" \/ stopped[w]

\* At least once: what is enqueued succeeds in the end, whatever failed or
\* crashed on the way, as long as one worker keeps running.
EveryItemSucceeds ==
  \A i \in Item : status[i] = "pending" ~> (status[i] = "succeeded" \/ NobodyWorks)

\* stop() resolves, unless the process dies first.
StopReturns ==
  \A w \in Worker : stopped[w] ~> (returned[w] \/ stage[w] = "off")
=============================================================================
