--------------------------- MODULE MessageProjection ---------------------------
(***************************************************************************)
(* The stored projection of one message: its wats_messages row and its     *)
(* wats_message_status_events, written by recordMessage and by             *)
(* appendMessageStatus (packages/persistence/src/postgres.ts, sqlite.ts).  *)
(*                                                                         *)
(* A process is one store.  Its mutex (#withLock; SQLite: one synchronous  *)
(* call) lets it run one operation at a time.  Several processes share one *)
(* Postgres database under READ COMMITTED, so a step is one statement, or  *)
(* the part of a transaction between two reads: what a transaction writes  *)
(* is seen when it commits, and its UPDATE overwrites whatever is there.   *)
(* stage[p] is what the operation of p does next:                          *)
(*    "inserting"   INSERT the row         "reading"   SELECT the events   *)
(*    "reconciling" its loop, then UPDATE the row                          *)
(*    "comparing"   SELECT the row         "committing" UPDATE it, COMMIT  *)
(***************************************************************************)
EXTENDS MessageStatus, FiniteSets

CONSTANTS
  Process,
  EventStatus,   \* statuses events carry; those without a rank too
  MaxTime,       \* bound: timestamps are 1 .. MaxTime
  MaxEvents,     \* bound: events ever stored
  MaxRecords,    \* calls of recordMessage; the service makes one per message
  MaxFaults      \* bound: operations that fail or die half way

ASSUME ProjectionAssumption ==
  /\ MaxTime \in Nat
  /\ MaxEvents \in Nat
  /\ MaxRecords \in Nat
  /\ MaxFaults \in Nat

Time == 1 .. MaxTime
Event == [status : EventStatus, timestamp : Time]

VARIABLES
  row,           \* the row; status "none" before it exists
  events,        \* the stored events
  stage,         \* stage[p]: see above, or "idle"
  input,         \* input[p]: the row to record, or the event to append
  seen,          \* seen[p]: the row p has read, or is about to write
  todo,          \* todo[p]: the events the loop of reconcile has still to look at
  records,       \* how often recordMessage was called
  faults,        \* history: operations that failed half way
  overlapped     \* history: two operations have overlapped

stores == <<row, events>>
vars == <<row, events, stage, input, seen, todo, records, faults, overlapped>>

Stage == {"idle", "inserting", "reading", "reconciling", "comparing", "committing"}
NoRow == [status |-> "none", updatedAt |-> 0]
RowValue == {NoRow} \cup [status : EventStatus \cup {"sent"}, updatedAt : Time]

Init ==
  /\ row = NoRow
  /\ events = {}
  /\ stage = [p \in Process |-> "idle"]
  /\ input = [p \in Process |-> NoRow]
  /\ seen = [p \in Process |-> NoRow]
  /\ todo = [p \in Process |-> {}]
  /\ records = 0
  /\ faults = 0
  /\ overlapped = FALSE
-----------------------------------------------------------------------------
Quiet == \A p \in Process : stage[p] = "idle"

Begin(p, s, i) ==
  /\ stage[p] = "idle"
  /\ stage' = [stage EXCEPT ![p] = s]
  /\ input' = [input EXCEPT ![p] = i]
  /\ overlapped' = (overlapped \/ ~Quiet)
  /\ UNCHANGED <<stores, seen, todo, faults>>

Proceed(p, s, r, rest) ==
  /\ stage' = [stage EXCEPT ![p] = s]
  /\ seen' = [seen EXCEPT ![p] = r]
  /\ todo' = [todo EXCEPT ![p] = rest]
  /\ UNCHANGED <<input, records, faults, overlapped>>

End(p) ==
  /\ stage' = [stage EXCEPT ![p] = "idle"]
  /\ input' = [input EXCEPT ![p] = NoRow]
  /\ seen' = [seen EXCEPT ![p] = NoRow]
  /\ todo' = [todo EXCEPT ![p] = {}]
  /\ UNCHANGED <<records, overlapped>>

\* recordMessage, called with the send-time status.
RecordBegins(p, t) ==
  /\ records < MaxRecords
  /\ records' = records + 1
  /\ Begin(p, "inserting", [status |-> "sent", updatedAt |-> t])

\* The row is there or was not: either way reconcile follows.  (Postgres
\* returns early when the same message comes with another row_id.)
RecordInserts(p) ==
  /\ stage[p] = "inserting"
  /\ row' = IF row = NoRow THEN input[p] ELSE row
  /\ Proceed(p, "reading", NoRow, {})
  /\ UNCHANGED events

\* Slip: nothing is reconciled.
RecordSkipsEvents(p) ==
  /\ stage[p] = "reading"
  /\ End(p)
  /\ UNCHANGED <<stores, faults>>

\* reconcile starts from the recorded row, not the stored one.
RecordReads(p) ==
  /\ stage[p] = "reading"
  /\ Proceed(p, "reconciling", input[p], events)
  /\ UNCHANGED stores

\* One turn of its loop: ORDER BY timestamp, equal ones in any order.
RecordCompares(p) ==
  /\ stage[p] = "reconciling"
  /\ \E e \in todo[p] :
       /\ \A f \in todo[p] : e.timestamp <= f.timestamp
       /\ Proceed(p, "reconciling", Absorb(seen[p], e), todo[p] \ {e})
  /\ UNCHANGED stores

\* The loop is over: the row is updated if the events have made something of it.
RecordUpdates(p) ==
  /\ stage[p] = "reconciling"
  /\ todo[p] = {}
  /\ row' = IF seen[p] # input[p] THEN seen[p] ELSE row
  /\ End(p)
  /\ UNCHANGED <<events, faults>>

\* appendMessageStatus: BEGIN and the INSERT, which waits while another
\* open transaction inserts the same event.
AppendBegins(p, e) ==
  /\ e \in events \/ Cardinality(events) < MaxEvents
  /\ \A q \in Process : stage[q] \in {"comparing", "committing"} => input[q] # e
  /\ Begin(p, "comparing", e)
  /\ UNCHANGED records

AppendReads(p) ==
  /\ stage[p] = "comparing"
  /\ Proceed(p, "committing", row, {})
  /\ UNCHANGED stores

\* The event and the row it advances, if there is one, become visible.
AppendCommits(p) ==
  LET e == input[p]
      advances == seen[p] # NoRow /\ ShouldAdvance(e.status, seen[p].status)
  IN
  /\ stage[p] = "committing"
  /\ events' = events \cup {e}
  /\ row' = IF advances THEN Absorb(seen[p], e) ELSE row
  /\ End(p)
  /\ UNCHANGED faults

\* A statement fails or the process dies.  A transaction is rolled back; the
\* statements recordMessage has made stay made.
Fail(p) ==
  /\ stage[p] # "idle"
  /\ faults < MaxFaults
  /\ faults' = faults + 1
  /\ End(p)
  /\ UNCHANGED stores

Next ==
  \E p \in Process :
    \/ \E t \in Time : RecordBegins(p, t)
    \/ RecordInserts(p) \/ RecordReads(p) \/ RecordCompares(p) \/ RecordUpdates(p)
    \/ \E e \in Event : AppendBegins(p, e)
    \/ AppendReads(p) \/ AppendCommits(p)
    \/ Fail(p)

Spec == Init /\ [][Next]_vars
-----------------------------------------------------------------------------
(* Correctness *)

TypeOK ==
  /\ row \in RowValue
  /\ events \subseteq Event
  /\ stage \in [Process -> Stage]
  /\ input \in [Process -> RowValue \cup Event]
  /\ seen \in [Process -> RowValue]
  /\ todo \in [Process -> SUBSET events]
  /\ records \in 0 .. MaxRecords
  /\ faults \in 0 .. MaxFaults
  /\ overlapped \in BOOLEAN

\* No operation has failed half way, and none has run into another one: the
\* single process over SQLite, or over Postgres, whatever the order of calls.
Undisturbed == faults = 0 /\ ~overlapped

\* A row at rest is behind no stored event, in whatever order the events,
\* their timestamps and the projection of the message itself arrived.
NotBehindItsEvents ==
  Quiet /\ Undisturbed /\ row # NoRow =>
    \A e \in events : Level(e.status) <= Level(row.status)

\* Whatever overlaps or fails, the status is one that was reported.
NeverAheadOfItsEvents ==
  row # NoRow => row.status = "sent" \/ \E e \in events : e.status = row.status

\* The row tells what the events tell, and nothing else.
RowTellsItsEvents == TypeOK /\ NotBehindItsEvents /\ NeverAheadOfItsEvents

\* No event, late or early, moves the time of the last change back, as long
\* as the message is recorded once, which is all the service does.
UpdatedAtIsMonotone ==
  [][Undisturbed' /\ records <= 1 => row'.updatedAt >= row.updatedAt]_vars

\* The statement of persistence.mdx, without the proviso:
\* "recordMessage reconciles the stored events ... so it does not regress to
\* the send-time status"
EarlyStatusIsReconciled ==
  Quiet /\ row # NoRow => \A e \in events : Level(e.status) <= Level(row.status)
=============================================================================
