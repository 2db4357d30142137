-------------------------------- MODULE Outbox --------------------------------
(***************************************************************************)
(* The wats_outbox table and the four store operations on it               *)
(* (packages/persistence/src/sqlite.ts and postgres.ts).  SQLite runs each *)
(* operation as one synchronous call, Postgres as one statement or one     *)
(* transaction that locks its rows, so each is one action.  What Postgres  *)
(* adds is that a claim skips the rows another claim has locked (hidden).  *)
(*                                                                         *)
(* A timestamp is kept as its distance to the clock, so time is unbounded  *)
(* and the state space finite.  until[i] is the distance after which the   *)
(* row is claimable: next_attempt_at - clock for a pending row,            *)
(* updated_at + lease - clock for one being processed.  Callers pass a     *)
(* `now' taken earlier; lag is how far it has fallen behind the clock.     *)
(* attempts and lease_id are incremented together and start together, so   *)
(* one number stands for both.                                             *)
(***************************************************************************)
EXTENDS Integers, FiniteSets

CONSTANTS
  Item,          \* outbox ids, numbered in the order (created_at, id)
  BatchLimit,    \* rows one claim returns at most
  Lease,         \* OUTBOX_PROCESSING_LEASE_MS, in clock units
  Delays,        \* next_attempt_at - created_at of the items callers enqueue
  MaxLag,        \* bound: how far a caller's `now' falls behind the clock
  MaxAttempts    \* bound: how often one item is claimed

ASSUME OutboxAssumption ==
  /\ Item \subseteq Nat /\ IsFiniteSet(Item)
  /\ BatchLimit \in Nat \ {0}
  /\ Lease \in Nat \ {0}
  /\ Delays \subseteq Nat
  /\ MaxLag \in Nat
  /\ MaxAttempts \in Nat

VARIABLES
  status,        \* status[i]: "absent" before the row exists
  lease,         \* lease[i]: lease_id
  until          \* until[i]: see above; 0 where no operation reads it

rowVars == <<status, lease, until>>

Status == {"absent", "pending", "processing", "succeeded"}

RowsTypeOK ==
  /\ status \in [Item -> Status]
  /\ lease \in [Item -> Nat]
  /\ until \in [Item -> Int]

RowsInit ==
  /\ status = [i \in Item |-> "absent"]
  /\ lease = [i \in Item |-> 0]
  /\ until = [i \in Item |-> 0]
-----------------------------------------------------------------------------
\* The number countOutboxPending returns.
PendingCount == Cardinality({i \in Item : status[i] = "pending"})

\* Slip: the claim forgets the rows whose lease has run out.
ClaimableIfPending(i, lag) ==
  status[i] = "pending" /\ until[i] + lag <= 0 /\ lease[i] < MaxAttempts

\* The WHERE clause of the claim, for a caller whose now lags by lag.
Claimable(i, lag) ==
  /\ status[i] \in {"pending", "processing"}
  /\ until[i] + lag <= 0
  /\ lease[i] < MaxAttempts

\* ORDER BY created_at, id LIMIT n FOR UPDATE SKIP LOCKED: nothing claimable
\* is passed over for a later row, and the batch is as long as the limit allows.
IsBatch(S, lag, hidden) ==
  LET candidates == {i \in Item \ hidden : Claimable(i, lag)} IN
  /\ S \subseteq candidates
  /\ \A i \in S : \A j \in candidates \ S : i < j
  /\ Cardinality(S) <= BatchLimit
  /\ Cardinality(S) = BatchLimit \/ S = candidates

\* Slip: the mark is guarded by the status alone.
HoldsAnyLease(i, l) == status[i] = "processing"

\* WHERE id = ? AND status = 'processing' AND lease_id = ?
HoldsLease(i, l) == status[i] = "processing" /\ lease[i] = l
-----------------------------------------------------------------------------
\* A second enqueue of an id reports "duplicate" and leaves the row alone.
Enqueue(i, delay) ==
  LET new == status[i] = "absent" IN
  /\ status' = [status EXCEPT ![i] = IF new THEN "pending" ELSE @]
  /\ until' = [until EXCEPT ![i] = IF new THEN delay ELSE @]
  /\ UNCHANGED lease

\* Slip: a row taken over from an expired lease keeps its lease id.
ClaimKeepsLease(S, lag, hidden) ==
  /\ IsBatch(S, lag, hidden)
  /\ status' = [i \in Item |-> IF i \in S THEN "processing" ELSE status[i]]
  /\ lease' = [i \in Item |-> IF i \in S /\ status[i] = "pending"
                              THEN lease[i] + 1 ELSE lease[i]]
  /\ until' = [i \in Item |-> IF i \in S THEN Lease - lag ELSE until[i]]

Claim(S, lag, hidden) ==
  /\ IsBatch(S, lag, hidden)
  /\ status' = [i \in Item |-> IF i \in S THEN "processing" ELSE status[i]]
  /\ lease' = [i \in Item |-> IF i \in S THEN lease[i] + 1 ELSE lease[i]]
  /\ until' = [i \in Item |-> IF i \in S THEN Lease - lag ELSE until[i]]

MarkSucceeded(i, l) ==
  /\ HoldsLease(i, l)
  /\ status' = [status EXCEPT ![i] = "succeeded"]
  /\ until' = [until EXCEPT ![i] = 0]
  /\ UNCHANGED lease

\* delay is next_attempt_at minus the clock, negative when already past.
MarkFailed(i, l, delay) ==
  /\ HoldsLease(i, l)
  /\ status' = [status EXCEPT ![i] = "pending"]
  /\ until' = [until EXCEPT ![i] = delay]
  /\ UNCHANGED lease

\* One unit of time passes; below -MaxLag every caller may claim the row.
Age ==
  /\ until' = [i \in Item |->
                 IF status[i] \in {"pending", "processing"} /\ until[i] > -MaxLag
                 THEN until[i] - 1 ELSE until[i]]
  /\ UNCHANGED <<status, lease>>
=============================================================================
