--------------------------- MODULE StoreConnection ---------------------------
(***************************************************************************)
(* The one connection of a Postgres store: #withLock, the chain of         *)
(* promises behind which every public method waits, and close().  A        *)
(* transaction of Postgres belongs to the connection and not to the        *)
(* caller: what runs while one is open is part of it, BEGIN inside of one  *)
(* does nothing, and COMMIT or ROLLBACK end it for everyone.  Only the     *)
(* chain keeps the operations of a process apart.                          *)
(***************************************************************************)
EXTENDS Naturals, Sequences

CONSTANTS
  Op,          \* calls of public methods other than close
  TxOp,        \* those that work between BEGIN and COMMIT
  Closer,      \* calls of close()
  MaxWork,     \* bound: statements of one operation
  MaxFaults    \* bound: connections lost, calls of end() that fail

ASSUME StoreConnectionAssumption ==
  /\ TxOp \subseteq Op
  /\ Op \cap Closer = {}
  /\ MaxWork \in Nat \ {0}
  /\ MaxFaults \in Nat

Caller == Op \cup Closer

VARIABLES
  \* The store object.
  closing,    \* #closing, set while close() is being called
  closed,     \* #closed, set when close() has its turn
  chain,      \* #chain: the callers that have not settled, in the order of their calls
  \* The callers.
  stage,      \* for a caller, the query it waits for
  result,     \* for a caller, what its promise settled with
  \* The connection and the database.
  lost,       \* whether the connection has broken
  ended,      \* whether client.end() has succeeded
  tx,         \* whether a transaction is open on the connection
  work,       \* for an operation, the statements it has executed
  pending,    \* of these, the ones in the open transaction
  kept,       \* of these, the ones that are durable
  faults

storeVars == <<closing, closed>>
dbVars == <<lost, ended, tx, work, pending, kept>>
vars == <<closing, closed, chain, stage, result, lost, ended, tx, work, pending, kept, faults>>

Stage == {"idle", "waiting", "working", "committing", "rollingBack", "settled"}
Result == {"none", "ok", "failed", "refused"}

Chained == {chain[i] : i \in DOMAIN chain}

\* An operation whose function has begun and not settled.
Begun == {c \in Op : stage[c] \in {"working", "committing", "rollingBack"}}

\* Slip: operations start at once.
MayRunAtOnce(c) == c \in Chained

\* this.#chain.then(fn, fn): a function runs when all before it have settled.
MayRun(c) == chain # <<>> /\ c = Head(chain)

MoveTo(c, s) == stage' = [stage EXCEPT ![c] = s]

\* The promise of `c` settles and the chain moves on, also after a failure.
Settle(c, r) ==
  /\ MoveTo(c, "settled")
  /\ result' = [result EXCEPT ![c] = r]
  /\ chain' = Tail(chain)

Fault ==
  /\ faults < MaxFaults
  /\ faults' = faults + 1

\* Queries are answered.
Up == ~lost /\ ~ended

\* The connection breaks: the server rolls back what was open.
Break ==
  /\ lost' = TRUE
  /\ tx' = FALSE
  /\ pending' = [c \in Op |-> 0]
-----------------------------------------------------------------------------
Init ==
  /\ closing = FALSE /\ closed = FALSE
  /\ chain = <<>>
  /\ stage = [c \in Caller |-> "idle"]
  /\ result = [c \in Caller |-> "none"]
  /\ lost = FALSE /\ ended = FALSE /\ tx = FALSE
  /\ work = [c \in Op |-> 0]
  /\ pending = [c \in Op |-> 0]
  /\ kept = [c \in Op |-> 0]
  /\ faults = 0

\* #assertOpen and #withLock happen in the same turn of the event loop.
Call(c) ==
  /\ c \in Op /\ stage[c] = "idle" /\ ~(closing \/ closed)
  /\ chain' = Append(chain, c)
  /\ MoveTo(c, "waiting")
  /\ UNCHANGED <<storeVars, result, dbVars, faults>>

CallRefused(c) ==
  /\ c \in Op /\ stage[c] = "idle" /\ (closing \/ closed)
  /\ MoveTo(c, "settled")
  /\ result' = [result EXCEPT ![c] = "refused"]
  /\ UNCHANGED <<storeVars, chain, dbVars, faults>>

\* Slip: a second close() returns while the first still drains.
CallCloseOnce(c) ==
  /\ c \in Closer /\ stage[c] = "idle"
  /\ closing' = TRUE
  /\ IF closing
       THEN /\ MoveTo(c, "settled") /\ result' = [result EXCEPT ![c] = "ok"]
            /\ UNCHANGED chain
       ELSE chain' = Append(chain, c) /\ MoveTo(c, "waiting") /\ UNCHANGED result
  /\ UNCHANGED <<closed, dbVars, faults>>

\* close() does not look at #closing: a second one queues behind the first.
CallClose(c) ==
  /\ c \in Closer /\ stage[c] = "idle"
  /\ closing' = TRUE
  /\ chain' = Append(chain, c)
  /\ MoveTo(c, "waiting")
  /\ UNCHANGED <<closed, result, dbVars, faults>>

Begin(c) ==
  /\ c \in TxOp /\ stage[c] = "waiting" /\ MayRun(c) /\ Up
  /\ tx' = TRUE
  /\ MoveTo(c, "working")
  /\ UNCHANGED <<storeVars, chain, result, lost, ended, work, pending, kept, faults>>

\* The first statement of an operation without a transaction needs no BEGIN.
AtWork(c) ==
  \/ c \in Op \ TxOp /\ stage[c] = "waiting" /\ MayRun(c)
  \/ c \in Op /\ stage[c] = "working"

Execute(c) ==
  /\ AtWork(c) /\ Up /\ work[c] < MaxWork
  /\ MoveTo(c, "working")
  /\ work' = [work EXCEPT ![c] = @ + 1]
  /\ IF tx
       THEN pending' = [pending EXCEPT ![c] = @ + 1] /\ UNCHANGED kept
       ELSE kept' = [kept EXCEPT ![c] = @ + 1] /\ UNCHANGED pending
  /\ UNCHANGED <<storeVars, chain, result, lost, ended, tx, faults>>

\* After its last statement an operation without a transaction returns.
Return(c) ==
  /\ c \in Op \ TxOp /\ stage[c] = "working"
  /\ Settle(c, "ok")
  /\ UNCHANGED <<storeVars, dbVars, faults>>

\* Slip: a transaction does not wait for its COMMIT.
CompleteUnawaited(c) ==
  /\ c \in TxOp /\ stage[c] = "working"
  /\ Settle(c, "ok")
  /\ UNCHANGED <<storeVars, dbVars, faults>>

\* After its last statement a transaction sends COMMIT.
Complete(c) ==
  /\ c \in TxOp /\ stage[c] = "working"
  /\ MoveTo(c, "committing")
  /\ UNCHANGED <<storeVars, chain, result, dbVars, faults>>

Commit(c) ==
  /\ stage[c] = "committing" /\ Up
  /\ kept' = [d \in Op |-> kept[d] + pending[d]]
  /\ pending' = [d \in Op |-> 0]
  /\ tx' = FALSE
  /\ Settle(c, "ok")
  /\ UNCHANGED <<storeVars, lost, ended, work, faults>>

\* Slip: an operation that fails in its transaction leaves it open.
RefuseWithoutRollback(c) ==
  /\ c \in Op /\ Up /\ MayRun(c)
  /\ Settle(c, "failed")
  /\ UNCHANGED <<storeVars, dbVars, faults>>

\* The server refuses a query, or the function throws by itself (invalid input,
\* a lease that is gone): the catch of a transaction rolls back, once its BEGIN,
\* which is outside of the try, has been accepted.
Refuse(c) ==
  /\ c \in Op /\ Up
  /\ \/ stage[c] = "waiting" /\ MayRun(c) /\ Settle(c, "failed")
     \/ c \notin TxOp /\ stage[c] = "working" /\ Settle(c, "failed")
     \/ /\ c \in TxOp /\ stage[c] \in {"working", "committing"}
        /\ MoveTo(c, "rollingBack")
        /\ UNCHANGED <<chain, result>>
  /\ UNCHANGED <<storeVars, dbVars, faults>>

Rollback(c) ==
  /\ stage[c] = "rollingBack" /\ Up
  /\ pending' = [d \in Op |-> 0]
  /\ tx' = FALSE
  /\ Settle(c, "failed")
  /\ UNCHANGED <<storeVars, lost, ended, work, kept, faults>>

\* The connection is lost under a query of an operation, which fails, and its
\* ROLLBACK with it.  The query may have been executed before: a COMMIT, or a
\* statement outside of a transaction.
Lose(c) ==
  /\ c \in Op /\ Up
  /\ stage[c] \in {"working", "committing", "rollingBack"} \/ (stage[c] = "waiting" /\ MayRun(c))
  /\ Fault
  /\ Break
  /\ \/ UNCHANGED <<work, kept>>
     \/ /\ stage[c] = "committing"
        /\ kept' = [d \in Op |-> kept[d] + pending[d]]
        /\ UNCHANGED work
     \/ /\ AtWork(c) /\ ~tx /\ work[c] < MaxWork
        /\ kept' = [kept EXCEPT ![c] = @ + 1]
        /\ work' = [work EXCEPT ![c] = @ + 1]
  /\ Settle(c, "failed")
  /\ UNCHANGED <<storeVars, ended>>

\* The connection is lost while no query is under way.
LoseIdle ==
  /\ Begun = {} /\ Up
  /\ Fault
  /\ Break
  /\ UNCHANGED <<storeVars, chain, stage, result, ended, work, kept>>

\* Slip: waits for the connection to come back.
QueryWaits(c) ==
  /\ c \in Op /\ stage[c] = "waiting" /\ MayRun(c) /\ ~Up
  /\ UNCHANGED vars

\* Every first query on a connection that is gone is an error.
QueryFails(c) ==
  /\ c \in Op /\ stage[c] = "waiting" /\ MayRun(c) /\ ~Up
  /\ Settle(c, "failed")
  /\ UNCHANGED <<storeVars, dbVars, faults>>

\* #closeLocked: ends the client, once.
End(c) ==
  /\ c \in Closer /\ stage[c] = "waiting" /\ MayRun(c) /\ ~closed
  /\ closed' = TRUE
  /\ ended' = TRUE
  /\ Settle(c, "ok")
  /\ UNCHANGED <<closing, lost, tx, work, pending, kept, faults>>

\* end() fails; the store counts as closed all the same.
EndFails(c) ==
  /\ c \in Closer /\ stage[c] = "waiting" /\ MayRun(c) /\ ~closed
  /\ Fault
  /\ closed' = TRUE
  /\ Settle(c, "failed")
  /\ UNCHANGED <<closing, dbVars>>

EndedBefore(c) ==
  /\ c \in Closer /\ stage[c] = "waiting" /\ MayRun(c) /\ closed
  /\ Settle(c, "ok")
  /\ UNCHANGED <<storeVars, dbVars, faults>>

\* The turns of `c` that end without a fault.
Answered(c) ==
  \/ Begin(c) \/ Execute(c) \/ Return(c) \/ Complete(c) \/ Commit(c) \/ Rollback(c)
  \/ QueryFails(c) \/ End(c) \/ EndedBefore(c)

Terminated == (\A c \in Caller : stage[c] = "settled") /\ UNCHANGED vars

Next ==
  \/ \E c \in Caller :
       \/ Call(c) \/ CallRefused(c) \/ CallClose(c)
       \/ Answered(c)
       \/ Refuse(c) \/ Lose(c) \/ EndFails(c)
  \/ LoseIdle
  \/ Terminated

Spec == Init /\ [][Next]_vars

-----------------------------------------------------------------------------
\* Types; what a statement did is somewhere, unless it was rolled back; who has
\* settled is not in the chain.
TypeOK ==
  /\ closing \in BOOLEAN /\ closed \in BOOLEAN /\ (closed => closing)
  /\ chain \in Seq(Caller)
  /\ stage \in [Caller -> Stage] /\ result \in [Caller -> Result]
  /\ \A c \in Caller : result[c] # "none" <=> stage[c] = "settled"
  /\ lost \in BOOLEAN /\ ended \in BOOLEAN /\ tx \in BOOLEAN
  /\ work \in [Op -> 0..MaxWork] /\ pending \in [Op -> 0..MaxWork] /\ kept \in [Op -> 0..MaxWork]
  /\ faults \in 0..MaxFaults

\* The operations of a process do not overlap on its connection: between two
\* queries of one, no other sends a query.
OneAtATime ==
  \A c, d \in Begun : c = d

\* An open transaction belongs to an operation under way; none is left behind
\* for the next operation to work in.
TransactionsAreClosed ==
  tx => TxOp \cap Begun # {}

\* Operations take turns, and leave nothing open behind them.
TurnsAreTaken == OneAtATime /\ TransactionsAreClosed

\* What a caller is told is what the database did: all of it after "ok"; after
\* a failed transaction nothing, unless the connection broke under its COMMIT,
\* and even then all or nothing.
ToldWhatHappened ==
  \A c \in Op : stage[c] = "settled" =>
    /\ result[c] = "ok" => kept[c] = work[c]
    /\ c \in TxOp => kept[c] \in {0, work[c]}
    /\ c \in TxOp /\ result[c] = "failed" /\ ~lost => kept[c] = 0
    /\ result[c] = "refused" => work[c] = 0

\* Turns are taken, and whoever had one knows what came of it.
StoreIsSound == TurnsAreTaken /\ ToldWhatHappened

\* close() drains: when the client is ended, nothing that was accepted is still
\* to come, whatever was called in the same turn of the event loop.
NothingAfterEnd ==
  closed => Chained \subseteq Closer

\* A close() that succeeds means that the client has ended, unless another
\* close() has reported that it could not be.
CloseMeansEnded ==
  \A c \in Closer : result[c] = "ok" => ended \/ \E d \in Closer : result[d] = "failed"

\* close() comes last, and has then done what it says.
CloseIsTheEnd == NothingAfterEnd /\ CloseMeansEnded

\* The store at work implements the serial store: what is kept of an operation
\* is its effect.
Serial == INSTANCE SerialStore WITH
  Operation <- Op, Atomic <- TxOp, queue <- chain, effect <- kept, answer <- result

ImplementsSerialStore == Serial!Spec
=============================================================================
