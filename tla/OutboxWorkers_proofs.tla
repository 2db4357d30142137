------------------------- MODULE OutboxWorkers_proofs -------------------------
(***************************************************************************)
(* Proofs about OutboxWorkers, for every number of workers and items and   *)
(* every value of the other constants.                                     *)
(***************************************************************************)
EXTENDS OutboxWorkers, FiniteSetTheorems, TLAPS

-----------------------------------------------------------------------------
(* Type correctness *)

LEMMA PendingCountIsNat == PendingCount \in Nat
<1>1. IsFiniteSet({i \in Item : status[i] = "pending"})
  BY OutboxAssumption, FS_Subset
<1> QED
  BY <1>1, FS_CardinalityType DEF PendingCount

LEMMA SettleType ==
  ASSUME NEW w \in Worker, TypeOK, Settle(w)
  PROVE  /\ stage' \in [Worker -> Stage]
         /\ held' \in [Worker -> [Item -> Nat]]
         /\ cur' \in [Worker -> Item \cup {NoItem}]
         /\ lag' \in [Worker -> 0 .. MaxLag]
         /\ inFlight' \in [Worker -> BOOLEAN]
         /\ timer' \in [Worker -> BOOLEAN]
         /\ stopped' \in [Worker -> BOOLEAN]
         /\ returned' \in [Worker -> BOOLEAN]
BY OutboxAssumption DEF Settle, TypeOK, NoneHeld, Stage

LEMMA TakeNextType ==
  ASSUME NEW w \in Worker, TypeOK, NEW left \in [Item -> Nat], TakeNext(w, left)
  PROVE  /\ stage' \in [Worker -> Stage]
         /\ held' \in [Worker -> [Item -> Nat]]
         /\ cur' \in [Worker -> Item \cup {NoItem}]
         /\ lag' \in [Worker -> 0 .. MaxLag]
         /\ inFlight' \in [Worker -> BOOLEAN]
         /\ timer' \in [Worker -> BOOLEAN]
         /\ stopped' \in [Worker -> BOOLEAN]
         /\ returned' \in [Worker -> BOOLEAN]
BY DEF TakeNext, TypeOK, loopVars, Stage

LEMMA MarkSucceededType ==
  ASSUME NEW i, NEW l, RowsTypeOK, MarkSucceeded(i, l)
  PROVE  RowsTypeOK'
<1>1. status' \in [Item -> Status]
  BY DEF MarkSucceeded, RowsTypeOK, Status
<1>2. until' \in [Item -> Int]
  <2>1. until \in [Item -> Int] /\ until' = [until EXCEPT ![i] = 0]
    BY DEF MarkSucceeded, RowsTypeOK
  <2>2. \A j \in Item : until'[j] \in Int
    BY <2>1
  <2> QED
    BY <2>1, <2>2
<1> QED
  BY <1>1, <1>2 DEF MarkSucceeded, RowsTypeOK

LEMMA MarkFailedType ==
  ASSUME NEW i, NEW l, NEW d \in Int, RowsTypeOK, MarkFailed(i, l, d)
  PROVE  RowsTypeOK'
<1>1. status' \in [Item -> Status]
  BY DEF MarkFailed, RowsTypeOK, Status
<1>2. until' \in [Item -> Int]
  BY DEF MarkFailed, RowsTypeOK
<1> QED
  BY <1>1, <1>2 DEF MarkFailed, RowsTypeOK

LEMMA TypeInit == Init => TypeOK
BY OutboxAssumption DEF Init, TypeOK, RowsInit, RowsTypeOK, Status, Stage, NoneHeld

LEMMA TypeStep == TypeOK /\ [Next]_vars => TypeOK'
<1> SUFFICES ASSUME TypeOK, [Next]_vars PROVE TypeOK'
  OBVIOUS
<1> USE OutboxAssumption, WorkerAssumption
<1>1. ASSUME NEW w \in Worker, Start(w) PROVE TypeOK'
  BY <1>1 DEF Start, TypeOK, RowsTypeOK, rowVars, Stage
<1>2. ASSUME NEW w \in Worker, Fire(w) PROVE TypeOK'
  BY <1>2 DEF Fire, TypeOK, RowsTypeOK, rowVars, Stage
<1>3. ASSUME NEW w \in Worker, ClaimReturns(w) PROVE TypeOK'
  <2>1. PICK S \in SUBSET Item, hidden \in SUBSET Item :
          /\ IF hidden = {} THEN UNCHANGED setbacks ELSE Setback
          /\ Claim(S, lag[w], hidden)
          /\ TakeNext(w, [i \in Item |-> IF i \in S THEN lease[i] + 1 ELSE 0])
    BY <1>3 DEF ClaimReturns
  <2>2. [i \in Item |-> IF i \in S THEN lease[i] + 1 ELSE 0] \in [Item -> Nat]
    BY DEF TypeOK, RowsTypeOK
  <2>3. RowsTypeOK'
    BY <2>1 DEF Claim, TypeOK, RowsTypeOK, Status
  <2>4. setbacks' \in Nat
    BY <2>1 DEF Setback, TypeOK
  <2> QED
    BY <1>3, <2>1, <2>2, <2>3, <2>4, TakeNextType DEF ClaimReturns, TypeOK
<1>4. ASSUME NEW w \in Worker, ClaimThrows(w) PROVE TypeOK'
  <2>1. RowsTypeOK'
    BY <1>4 DEF ClaimThrows, Claim, TypeOK, RowsTypeOK, Status, rowVars
  <2> QED
    BY <1>4, <2>1, SettleType DEF ClaimThrows, Setback, Abandon, Report, TypeOK
<1>5. ASSUME NEW w \in Worker, HandlerReturns(w) PROVE TypeOK'
  <2>1. delivered' \in [Item -> SUBSET Nat]
    <3>1. CASE cur[w] \in Item
      <4>1. held[w] \in [Item -> Nat]
        BY DEF TypeOK
      <4> QED
        BY <1>5, <3>1, <4>1 DEF HandlerReturns, LeaseOf, TypeOK
    <3>2. CASE cur[w] \notin Item
      BY <1>5, <3>2 DEF HandlerReturns, TypeOK
    <3> QED
      BY <3>1, <3>2
  <2> QED
    BY <1>5, <2>1 DEF HandlerReturns, MoveTo, TypeOK, RowsTypeOK, rowVars, loopVars, Stage
<1>6. ASSUME NEW w \in Worker, HandlerThrows(w) PROVE TypeOK'
  BY <1>6 DEF HandlerThrows, Setback, MoveTo, TypeOK, RowsTypeOK, rowVars, loopVars, Stage
<1>7. ASSUME NEW w \in Worker, SuccessIsMarked(w) PROVE TypeOK'
  <2>1. [held[w] EXCEPT ![cur[w]] = 0] \in [Item -> Nat]
    BY DEF TypeOK
  <2>2. RowsTypeOK'
    BY <1>7, MarkSucceededType DEF SuccessIsMarked, TypeOK
  <2> QED
    BY <1>7, <2>1, <2>2, TakeNextType DEF SuccessIsMarked, DoneWith, TypeOK
<1>8. ASSUME NEW w \in Worker, SuccessIsStale(w) PROVE TypeOK'
  BY <1>8 DEF SuccessIsStale, MoveTo, TypeOK, RowsTypeOK, rowVars, loopVars, Stage
<1>9. ASSUME NEW w \in Worker, SuccessThrows(w) PROVE TypeOK'
  <2>1. RowsTypeOK'
    <3>1. CASE UNCHANGED rowVars
      BY <3>1 DEF TypeOK, RowsTypeOK, rowVars
    <3>2. CASE MarkSucceeded(cur[w], LeaseOf(w))
      BY <3>2, MarkSucceededType DEF TypeOK
    <3> QED
      BY <1>9, <3>1, <3>2 DEF SuccessThrows
  <2> QED
    BY <1>9, <2>1 DEF SuccessThrows, Setback, MoveTo, TypeOK, loopVars, Stage
<1>10. ASSUME NEW w \in Worker, FailureIsMarked(w) PROVE TypeOK'
  <2>1. [held[w] EXCEPT ![cur[w]] = 0] \in [Item -> Nat]
    BY DEF TypeOK
  <2>2. RowsTypeOK'
    <3>1. Retry - lag[w] \in Int
      BY DEF TypeOK
    <3> QED
      BY <1>10, <3>1, MarkFailedType DEF FailureIsMarked, TypeOK
  <2> QED
    BY <1>10, <2>1, <2>2, TakeNextType DEF FailureIsMarked, DoneWith, TypeOK
<1>11. ASSUME NEW w \in Worker, FailureIsStale(w) PROVE TypeOK'
  BY <1>11, SettleType DEF FailureIsStale, Abandon, Report, TypeOK, RowsTypeOK, rowVars
<1>12. ASSUME NEW w \in Worker, FailureThrows(w) PROVE TypeOK'
  <2>1. RowsTypeOK'
    <3>1. CASE UNCHANGED rowVars
      BY <3>1 DEF TypeOK, RowsTypeOK, rowVars
    <3>2. CASE MarkFailed(cur[w], LeaseOf(w), Retry - lag[w])
      <4>1. Retry - lag[w] \in Int
        BY DEF TypeOK
      <4> QED
        BY <3>2, <4>1, MarkFailedType DEF TypeOK
    <3> QED
      BY <1>12, <3>1, <3>2 DEF FailureThrows
  <2> QED
    BY <1>12, <2>1, SettleType DEF FailureThrows, Setback, Abandon, Report, TypeOK
<1>13. ASSUME NEW w \in Worker, CountReturns(w) PROVE TypeOK'
  BY <1>13, SettleType, PendingCountIsNat
  DEF CountReturns, Report, TypeOK, RowsTypeOK, rowVars
<1>14. ASSUME NEW w \in Worker, CountThrows(w) PROVE TypeOK'
  BY <1>14, SettleType DEF CountThrows, Setback, Abandon, Report, TypeOK, RowsTypeOK, rowVars
<1>15. ASSUME NEW w \in Worker, Stop(w) PROVE TypeOK'
  BY <1>15 DEF Stop, TypeOK, RowsTypeOK, rowVars, tickVars
<1>16. ASSUME NEW w \in Worker, Crash(w) PROVE TypeOK'
  BY <1>16 DEF Crash, Setback, TypeOK, RowsTypeOK, rowVars, NoneHeld, Stage
<1>17. ASSUME NEW i \in Item, NEW d \in Delays, Submit(i, d) PROVE TypeOK'
  BY <1>17 DEF Submit, Enqueue, TypeOK, RowsTypeOK, tickVars, loopVars, Status
<1>18. ASSUME Advance PROVE TypeOK'
  BY <1>18 DEF Advance, Age, TypeOK, RowsTypeOK, loopVars
<1>19. CASE UNCHANGED vars
  BY <1>19 DEF vars, TypeOK, RowsTypeOK, rowVars, tickVars, loopVars
<1> QED
  BY <1>1, <1>2, <1>3, <1>4, <1>5, <1>6, <1>7, <1>8, <1>9, <1>10, <1>11,
     <1>12, <1>13, <1>14, <1>15, <1>16, <1>17, <1>18, <1>19 DEF Next, Tick

\* The table, the workers and the histories only ever hold values of their
\* types, however many workers run.
THEOREM TypeCorrect == Spec => []TypeOK
BY TypeInit, TypeStep, PTL DEF Spec

-----------------------------------------------------------------------------
(***************************************************************************)
(* The inductive invariant.  The properties the runs check do not follow   *)
(* from each other step by step: that a mark is made only under a lease    *)
(* delivered by the marker needs to know what a lease that is still held   *)
(* says of the row (HeldRow) and what the tick has done so far (CurInv).   *)
(***************************************************************************)

\* The stages in which a tick is at an item of its batch.
Busy == {"handling", "succeeding", "failing"}

\* What a lease still held by w says of the row and of the clock.
RowPart(w, i) ==
  /\ held[w][i] <= lease[i]
  /\ held[w][i] < lease[i] => lag[w] >= Lease
  /\ held[w][i] = lease[i] =>
       \/ status[i] = "processing" /\ until[i] = Lease - lag[w]
       \/ status[i] = "succeeded" /\ stage[w] = "failing" /\ cur[w] = i

HeldRow(w, i) ==
  /\ stage[w] \in Busy
  /\ RowPart(w, i)
  /\ \A v \in Worker \ {w} : held[v][i] # held[w][i]

HeldInv == \A w \in Worker, i \in Item : held[w][i] # 0 => HeldRow(w, i)

\* A busy tick is at an item it holds; one about to mark has delivered it.
CurInv ==
  \A w \in Worker :
    /\ stage[w] \in Busy => cur[w] \in Item /\ held[w][cur[w]] # 0
    /\ stage[w] = "succeeding" => held[w][cur[w]] \in delivered[cur[w]]

LoopInv ==
  /\ LoopStaysAlive
  /\ StopDrains
  /\ \A w \in Worker : stage[w] = "off" => ~timer[w]

IInv == TypeOK /\ HeldInv /\ CurInv /\ SucceededUnderItsOwnLease /\ LoopInv
-----------------------------------------------------------------------------
(* What the operations on the table do to the leases other workers hold *)

OthersKeep(w) ==
  \A v \in Worker \ {w} :
    held'[v] = held[v] /\ stage'[v] = stage[v] /\ cur'[v] = cur[v] /\ lag'[v] = lag[v]

\* A claim takes a row from another worker only if that worker's lease is out.
LEMMA ClaimAndOthers ==
  ASSUME TypeOK, HeldInv, NEW w \in Worker, NEW S \in SUBSET Item, NEW hidden, Claim(S, lag[w], hidden),
         OthersKeep(w), NEW v \in Worker \ {w}, NEW i \in Item, held[v][i] # 0
  PROVE  RowPart(v, i)'
<1>1. RowPart(v, i)
  BY DEF HeldInv, HeldRow
<1>2. held'[v][i] = held[v][i] /\ lag'[v] = lag[v] /\ stage'[v] = stage[v] /\ cur'[v] = cur[v]
  BY DEF OthersKeep
<1>3. held[v][i] \in Nat /\ lease[i] \in Nat /\ lag[v] \in Nat /\ lag[w] \in Nat /\ Lease \in Nat
      /\ until[i] \in Int
  BY OutboxAssumption DEF TypeOK, RowsTypeOK
<1>4. CASE i \in S
  <2>1. Claimable(i, lag[w]) /\ lease'[i] = lease[i] + 1
    BY <1>4 DEF Claim, IsBatch
  <2>2. held[v][i] = lease[i] => lag[v] >= Lease
    BY <1>1, <1>3, <2>1 DEF RowPart, Claimable
  <2>3. held'[v][i] < lease'[i] /\ lag'[v] >= Lease
    BY <1>1, <1>2, <1>3, <2>1, <2>2 DEF RowPart
  <2> QED
    BY <1>2, <1>3, <2>1, <2>3 DEF RowPart
<1>5. CASE i \notin S
  <2>1. status'[i] = status[i] /\ lease'[i] = lease[i] /\ until'[i] = until[i]
    BY <1>5 DEF Claim
  <2> QED
    BY <1>1, <1>2, <2>1 DEF RowPart
<1> QED
  BY <1>4, <1>5

\* A mark under w's own lease leaves the leases of the others as they are.
LEMMA MarkAndOthers ==
  ASSUME TypeOK, HeldInv, NEW w \in Worker, NEW j \in Item, NEW d, held[w][j] # 0,
         MarkSucceeded(j, held[w][j]) \/ MarkFailed(j, held[w][j], d),
         OthersKeep(w), NEW v \in Worker \ {w}, NEW i \in Item, held[v][i] # 0
  PROVE  RowPart(v, i)'
<1>1. RowPart(v, i) /\ held[w][i] # held[v][i]
  BY DEF HeldInv, HeldRow
<1>2. held'[v][i] = held[v][i] /\ lag'[v] = lag[v] /\ stage'[v] = stage[v] /\ cur'[v] = cur[v]
  BY DEF OthersKeep
<1>3. lease' = lease /\ lease[j] = held[w][j]
  BY DEF MarkSucceeded, MarkFailed, HoldsLease
<1>4. held[v][i] \in Nat /\ lease[i] \in Nat
  BY DEF TypeOK, RowsTypeOK
<1>5. CASE i = j
  BY <1>1, <1>2, <1>3, <1>4, <1>5 DEF RowPart
<1>6. CASE i # j
  <2>1. status'[i] = status[i] /\ until'[i] = until[i]
    BY <1>6 DEF MarkSucceeded, MarkFailed, TypeOK, RowsTypeOK
  <2> QED
    BY <1>1, <1>2, <1>3, <2>1 DEF RowPart
<1> QED
  BY <1>5, <1>6

\* HeldInv is kept by a step of w that keeps RowPart for the others and
\* establishes HeldRow for what w holds afterwards.
LEMMA HeldAfterStep ==
  ASSUME TypeOK, HeldInv, NEW w \in Worker, OthersKeep(w),
         \A v \in Worker \ {w}, i \in Item : held[v][i] # 0 => RowPart(v, i)',
         \A i \in Item : held'[w][i] # 0 =>
            /\ stage'[w] \in Busy
            /\ RowPart(w, i)'
            /\ \A v \in Worker \ {w} : held[v][i] # held'[w][i]
  PROVE  HeldInv'
<1> SUFFICES ASSUME NEW v \in Worker, NEW i \in Item, held'[v][i] # 0
             PROVE  HeldRow(v, i)'
  BY DEF HeldInv
<1>1. CASE v = w
  BY <1>1 DEF HeldRow, OthersKeep
<1>2. CASE v # w
  <2>1. held'[v] = held[v] /\ stage'[v] = stage[v]
    BY <1>2 DEF OthersKeep
  <2>2. HeldRow(v, i)
    BY <2>1 DEF HeldInv
  <2>3. ASSUME NEW u \in Worker \ {v} PROVE held'[u][i] # held'[v][i]
    <3>1. CASE u = w
      <4>1. CASE held'[w][i] = 0
        BY <3>1, <4>1
      <4>2. CASE held'[w][i] # 0
        BY <1>2, <3>1, <4>2, <2>1
      <4> QED
        BY <4>1, <4>2
    <3>2. CASE u # w
      BY <2>1, <2>2, <3>2 DEF HeldRow, OthersKeep
    <3> QED
      BY <3>1, <3>2
  <2> QED
    BY <1>2, <2>1, <2>2, <2>3 DEF HeldRow
<1> QED
  BY <1>1, <1>2

LEMMA CurAfterStep ==
  ASSUME TypeOK, CurInv, NEW w \in Worker, OthersKeep(w),
         \A i \in Item : delivered[i] \subseteq delivered'[i],
         stage'[w] \in Busy => cur'[w] \in Item /\ held'[w][cur'[w]] # 0,
         stage'[w] = "succeeding" => held'[w][cur'[w]] \in delivered'[cur'[w]]
  PROVE  CurInv'
<1> SUFFICES ASSUME NEW v \in Worker
             PROVE  /\ stage'[v] \in Busy => cur'[v] \in Item /\ held'[v][cur'[v]] # 0
                    /\ stage'[v] = "succeeding" => held'[v][cur'[v]] \in delivered'[cur'[v]]
  BY DEF CurInv, Busy
<1>1. CASE v = w
  BY <1>1
<1>2. CASE v # w
  <2>1. held'[v] = held[v] /\ stage'[v] = stage[v] /\ cur'[v] = cur[v]
    BY <1>2 DEF OthersKeep
  <2> QED
    BY <2>1 DEF CurInv, Busy
<1> QED
  BY <1>1, <1>2
-----------------------------------------------------------------------------
(* What the shared parts of the worker's steps do *)

LEMMA SettleEffect ==
  ASSUME TypeOK, NEW w \in Worker, Settle(w)
  PROVE  OthersKeep(w) /\ stage'[w] = "idle" /\ \A i \in Item : held'[w][i] = 0
BY DEF Settle, TypeOK, OthersKeep, NoneHeld

LEMMA TakeNextEffect ==
  ASSUME TypeOK, NEW w \in Worker, NEW left \in [Item -> Nat], TakeNext(w, left)
  PROVE  /\ OthersKeep(w) /\ held'[w] = left /\ lag' = lag
         /\ \/ stage'[w] = "counting" /\ \A i \in Item : left[i] = 0
            \/ stage'[w] = "handling" /\ cur'[w] \in Item /\ left[cur'[w]] # 0
BY DEF TakeNext, TypeOK, OthersKeep

LEMMA MoveToEffect ==
  ASSUME TypeOK, NEW w \in Worker, NEW s, MoveTo(w, s)
  PROVE  /\ OthersKeep(w) /\ stage'[w] = s
         /\ held' = held /\ cur' = cur /\ lag' = lag
BY DEF MoveTo, TypeOK, OthersKeep

\* Rows nobody touches keep what is said of them.
LEMMA RowsUntouched ==
  ASSUME HeldInv, UNCHANGED rowVars, NEW w \in Worker, OthersKeep(w),
         NEW v \in Worker \ {w}, NEW i \in Item, held[v][i] # 0
  PROVE  RowPart(v, i)'
BY DEF HeldInv, HeldRow, RowPart, OthersKeep, rowVars

LEMMA DoneWithEffect ==
  ASSUME TypeOK, CurInv, HeldInv, NEW w \in Worker, stage[w] \in Busy, DoneWith(w)
  PROVE  /\ OthersKeep(w) /\ lag' = lag
         /\ cur[w] \in Item /\ held[w][cur[w]] # 0
         /\ \A i \in Item : held'[w][i] = IF i = cur[w] THEN 0 ELSE held[w][i]
         /\ \/ stage'[w] = "counting" /\ \A i \in Item : held'[w][i] = 0
            \/ stage'[w] = "handling" /\ cur'[w] \in Item /\ held'[w][cur'[w]] # 0
<1> DEFINE left == [held[w] EXCEPT ![cur[w]] = 0]
<1>1. held[w] \in [Item -> Nat] /\ left \in [Item -> Nat]
  BY DEF TypeOK
<1>2. TakeNext(w, left)
  BY DEF DoneWith
<1>3. cur[w] \in Item /\ held[w][cur[w]] # 0
  BY DEF CurInv
<1>4. \A i \in Item : left[i] = IF i = cur[w] THEN 0 ELSE held[w][i]
  BY <1>1
<1> HIDE DEF left
<1> QED
  BY <1>1, <1>2, <1>3, <1>4, TakeNextEffect
-----------------------------------------------------------------------------
\* A worker that goes on to the next row after a mark under its own lease.
LEMMA HeldAfterMark ==
  ASSUME IInv, NEW w \in Worker, stage[w] \in {"succeeding", "failing"}, NEW d,
         \/ MarkSucceeded(cur[w], LeaseOf(w))
         \/ MarkFailed(cur[w], LeaseOf(w), d),
         DoneWith(w)
  PROVE  HeldInv'
<1>1. /\ OthersKeep(w) /\ lag' = lag
      /\ cur[w] \in Item /\ held[w][cur[w]] # 0
      /\ \A i \in Item : held'[w][i] = IF i = cur[w] THEN 0 ELSE held[w][i]
      /\ \/ stage'[w] = "counting" /\ \A i \in Item : held'[w][i] = 0
         \/ stage'[w] = "handling" /\ cur'[w] \in Item /\ held'[w][cur'[w]] # 0
  BY DoneWithEffect DEF IInv, Busy
<1>2. \A v \in Worker \ {w}, i \in Item : held[v][i] # 0 => RowPart(v, i)'
  BY <1>1, MarkAndOthers DEF IInv, LeaseOf
<1>3. ASSUME NEW i \in Item, held'[w][i] # 0
      PROVE  /\ stage'[w] \in Busy
             /\ RowPart(w, i)'
             /\ \A v \in Worker \ {w} : held[v][i] # held'[w][i]
  <2>1. i # cur[w] /\ held'[w][i] = held[w][i] /\ stage'[w] \in Busy
    BY <1>1, <1>3 DEF Busy
  <2>2. HeldRow(w, i)
    BY <1>3, <2>1 DEF IInv, HeldInv
  <2>3. status'[i] = status[i] /\ until'[i] = until[i] /\ lease'[i] = lease[i]
    BY <2>1 DEF MarkSucceeded, MarkFailed, IInv, TypeOK, RowsTypeOK
  <2> QED
    BY <1>1, <2>1, <2>2, <2>3 DEF HeldRow, RowPart
<1> QED
  BY <1>1, <1>2, <1>3, HeldAfterStep DEF IInv

\* A worker that ends its tick, whatever it did to the rows before.
LEMMA HeldAfterSettle ==
  ASSUME TypeOK, HeldInv, CurInv, NEW w \in Worker, Settle(w),
         \A v \in Worker \ {w}, i \in Item : held[v][i] # 0 => RowPart(v, i)',
         delivered' = delivered
  PROVE  HeldInv' /\ CurInv'
<1>1. OthersKeep(w) /\ stage'[w] = "idle" /\ \A i \in Item : held'[w][i] = 0
  BY SettleEffect
<1> QED
  BY <1>1, HeldAfterStep, CurAfterStep DEF Busy

\* A step of w that leaves the table and the leases w holds alone.
LEMMA HeldAfterMove ==
  ASSUME IInv, NEW w \in Worker, NEW s \in Busy, stage[w] \in Busy, MoveTo(w, s),
         UNCHANGED rowVars, stage[w] = "failing" => s = "failing"
  PROVE  HeldInv'
<1>1. OthersKeep(w) /\ stage'[w] = s /\ held' = held /\ cur' = cur /\ lag' = lag
  BY MoveToEffect DEF IInv
<1>2. \A v \in Worker \ {w}, i \in Item : held[v][i] # 0 => RowPart(v, i)'
  BY <1>1, RowsUntouched DEF IInv
<1>3. ASSUME NEW i \in Item, held'[w][i] # 0
      PROVE  /\ stage'[w] \in Busy
             /\ RowPart(w, i)'
             /\ \A v \in Worker \ {w} : held[v][i] # held'[w][i]
  BY <1>1, <1>3 DEF IInv, HeldInv, HeldRow, RowPart, rowVars
<1> QED
  BY <1>1, <1>2, <1>3, HeldAfterStep DEF IInv

\* A step that touches neither the table nor any worker's batch.
LEMMA HeldIfUnchanged ==
  ASSUME HeldInv, CurInv, UNCHANGED <<rowVars, held, cur, lag, delivered>>,
         \A w \in Worker : stage[w] \in Busy \/ stage'[w] \in Busy => stage'[w] = stage[w]
  PROVE  HeldInv' /\ CurInv'
<1>1. ASSUME NEW w \in Worker, NEW i \in Item, held'[w][i] # 0 PROVE HeldRow(w, i)'
  BY <1>1 DEF HeldInv, HeldRow, RowPart, rowVars, Busy
<1>2. CurInv'
  BY DEF CurInv, Busy
<1> QED
  BY <1>1, <1>2 DEF HeldInv
-----------------------------------------------------------------------------
(* The steps of a tick keep what is said of held leases *)

LEMMA ClaimReturnsKeeps ==
  ASSUME IInv, NEW w \in Worker, ClaimReturns(w)
  PROVE  HeldInv' /\ CurInv'
<1>1. PICK S \in SUBSET Item, hidden \in SUBSET Item :
        /\ Claim(S, lag[w], hidden)
        /\ TakeNext(w, [i \in Item |-> IF i \in S THEN lease[i] + 1 ELSE 0])
  BY DEF ClaimReturns
<1> DEFINE left == [i \in Item |-> IF i \in S THEN lease[i] + 1 ELSE 0]
<1>2. left \in [Item -> Nat]
  BY DEF IInv, TypeOK, RowsTypeOK
<1>3. /\ OthersKeep(w) /\ held'[w] = left /\ lag' = lag
      /\ \/ stage'[w] = "counting" /\ \A i \in Item : left[i] = 0
         \/ stage'[w] = "handling" /\ cur'[w] \in Item /\ left[cur'[w]] # 0
  <2>1. TakeNext(w, left)
    BY <1>1
  <2> HIDE DEF left
  <2> QED
    BY <1>2, <2>1, TakeNextEffect DEF IInv
<1>4. \A v \in Worker \ {w}, i \in Item : held[v][i] # 0 => RowPart(v, i)'
  BY <1>1, <1>3, ClaimAndOthers DEF IInv
<1>5. ASSUME NEW i \in Item, held'[w][i] # 0
      PROVE  /\ stage'[w] \in Busy
             /\ RowPart(w, i)'
             /\ \A v \in Worker \ {w} : held[v][i] # held'[w][i]
  <2>1. i \in S /\ held'[w][i] = lease[i] + 1 /\ stage'[w] \in Busy
    BY <1>3, <1>5 DEF Busy
  <2>2. lease'[i] = lease[i] + 1 /\ status'[i] = "processing" /\ until'[i] = Lease - lag[w]
    BY <1>1, <2>1 DEF Claim
  <2>3. lease[i] \in Nat
    BY DEF IInv, TypeOK, RowsTypeOK
  <2>4. RowPart(w, i)'
    BY <1>3, <2>1, <2>2, <2>3 DEF RowPart
  <2>5. ASSUME NEW v \in Worker \ {w} PROVE held[v][i] # held'[w][i]
    <3>1. held[v][i] # 0 => held[v][i] <= lease[i]
      BY DEF IInv, HeldInv, HeldRow, RowPart
    <3>2. held[v][i] \in Nat
      BY DEF IInv, TypeOK
    <3> QED
      BY <2>1, <2>3, <3>1, <3>2
  <2> QED
    BY <2>1, <2>4, <2>5
<1>6. delivered' = delivered
  BY DEF ClaimReturns
<1> QED
  BY <1>3, <1>4, <1>5, <1>6, HeldAfterStep, CurAfterStep DEF IInv, Busy

LEMMA ClaimThrowsKeeps ==
  ASSUME IInv, NEW w \in Worker, ClaimThrows(w)
  PROVE  HeldInv' /\ CurInv'
<1>1. Settle(w) /\ delivered' = delivered
  BY DEF ClaimThrows, Abandon
<1>2. OthersKeep(w)
  BY <1>1, SettleEffect DEF IInv
<1>3. \A v \in Worker \ {w}, i \in Item : held[v][i] # 0 => RowPart(v, i)'
  <2>1. CASE UNCHANGED rowVars
    BY <1>2, <2>1, RowsUntouched DEF IInv
  <2>2. CASE \E S, hidden \in SUBSET Item : Claim(S, lag[w], hidden)
    BY <1>2, <2>2, ClaimAndOthers DEF IInv
  <2> QED
    BY <2>1, <2>2 DEF ClaimThrows
<1> QED
  BY <1>1, <1>3, HeldAfterSettle DEF IInv

LEMMA HandlerReturnsKeeps ==
  ASSUME IInv, NEW w \in Worker, HandlerReturns(w)
  PROVE  HeldInv' /\ CurInv'
<1>1. MoveTo(w, "succeeding") /\ UNCHANGED rowVars /\ stage[w] = "handling"
  BY DEF HandlerReturns
<1>2. HeldInv'
  BY <1>1, HeldAfterMove DEF Busy
<1>3. OthersKeep(w) /\ stage'[w] = "succeeding" /\ held' = held /\ cur' = cur
  BY <1>1, MoveToEffect DEF IInv
<1>4. cur[w] \in Item /\ held[w][cur[w]] # 0
  BY <1>1 DEF IInv, CurInv, Busy
<1>5. /\ \A i \in Item : delivered[i] \subseteq delivered'[i]
      /\ held[w][cur[w]] \in delivered'[cur[w]]
  BY <1>4 DEF HandlerReturns, LeaseOf, IInv, TypeOK
<1> QED
  BY <1>2, <1>3, <1>4, <1>5, CurAfterStep DEF IInv

LEMMA GoesToFailing ==
  ASSUME IInv, NEW w \in Worker, stage[w] \in Busy, MoveTo(w, "failing"),
         delivered' = delivered
  PROVE  CurInv'
<1>1. OthersKeep(w) /\ stage'[w] = "failing" /\ held' = held /\ cur' = cur
  BY MoveToEffect DEF IInv
<1>2. cur[w] \in Item /\ held[w][cur[w]] # 0
  BY DEF IInv, CurInv
<1> QED
  BY <1>1, <1>2, CurAfterStep DEF IInv

\* The lost answer of markOutboxItemSucceeded: the row is done, w is failing.
LEMMA SuccessThrowsKeeps ==
  ASSUME IInv, NEW w \in Worker, SuccessThrows(w)
  PROVE  HeldInv' /\ CurInv'
<1>1. MoveTo(w, "failing") /\ stage[w] = "succeeding" /\ delivered' = delivered
  BY DEF SuccessThrows
<1>2. CurInv'
  BY <1>1, GoesToFailing DEF Busy
<1>3. CASE UNCHANGED rowVars
  BY <1>1, <1>2, <1>3, HeldAfterMove DEF Busy
<1>4. CASE MarkSucceeded(cur[w], LeaseOf(w))
  <2>1. OthersKeep(w) /\ stage'[w] = "failing" /\ held' = held /\ cur' = cur /\ lag' = lag
    BY <1>1, MoveToEffect DEF IInv
  <2>2. cur[w] \in Item /\ held[w][cur[w]] # 0
    BY <1>1 DEF IInv, CurInv, Busy
  <2>3. \A v \in Worker \ {w}, i \in Item : held[v][i] # 0 => RowPart(v, i)'
    BY <1>4, <2>1, <2>2, MarkAndOthers DEF IInv, LeaseOf
  <2>4. ASSUME NEW i \in Item, held'[w][i] # 0
        PROVE  /\ stage'[w] \in Busy
               /\ RowPart(w, i)'
               /\ \A v \in Worker \ {w} : held[v][i] # held'[w][i]
    <3>1. HeldRow(w, i)
      BY <2>1, <2>4 DEF IInv, HeldInv
    <3>2. CASE i = cur[w]
      <4>1. status'[i] = "succeeded" /\ lease'[i] = lease[i] /\ held[w][i] = lease[i]
        BY <1>4, <3>2, <2>2 DEF MarkSucceeded, HoldsLease, LeaseOf, IInv, TypeOK, RowsTypeOK
      <4> QED
        BY <2>1, <3>1, <3>2, <4>1 DEF HeldRow, RowPart, Busy
    <3>3. CASE i # cur[w]
      <4>1. status'[i] = status[i] /\ lease'[i] = lease[i] /\ until'[i] = until[i]
        BY <1>4, <3>3 DEF MarkSucceeded, IInv, TypeOK, RowsTypeOK
      <4> QED
        BY <1>1, <2>1, <3>1, <4>1 DEF HeldRow, RowPart, Busy
    <3> QED
      BY <3>2, <3>3
  <2> QED
    BY <1>2, <2>1, <2>3, <2>4, HeldAfterStep DEF IInv
<1> QED
  BY <1>3, <1>4 DEF SuccessThrows

LEMMA FailureThrowsKeeps ==
  ASSUME IInv, NEW w \in Worker, FailureThrows(w)
  PROVE  HeldInv' /\ CurInv'
<1>1. Settle(w) /\ delivered' = delivered /\ stage[w] = "failing"
  BY DEF FailureThrows, Abandon
<1>2. OthersKeep(w)
  BY <1>1, SettleEffect DEF IInv
<1>3. \A v \in Worker \ {w}, i \in Item : held[v][i] # 0 => RowPart(v, i)'
  <2>1. CASE UNCHANGED rowVars
    BY <1>2, <2>1, RowsUntouched DEF IInv
  <2>2. CASE MarkFailed(cur[w], LeaseOf(w), Retry - lag[w])
    <3>1. cur[w] \in Item /\ held[w][cur[w]] # 0
      BY <1>1 DEF IInv, CurInv, Busy
    <3> QED
      BY <1>2, <2>2, <3>1, MarkAndOthers DEF IInv, LeaseOf
  <2> QED
    BY <2>1, <2>2 DEF FailureThrows
<1> QED
  BY <1>1, <1>3, HeldAfterSettle DEF IInv

\* A tick that ends without touching the table.
LEMMA SettleKeeps ==
  ASSUME IInv, NEW w \in Worker, Settle(w), UNCHANGED <<rowVars, delivered>>
  PROVE  HeldInv' /\ CurInv'
<1>1. OthersKeep(w)
  BY SettleEffect DEF IInv
<1>2. \A v \in Worker \ {w}, i \in Item : held[v][i] # 0 => RowPart(v, i)'
  BY <1>1, RowsUntouched DEF IInv
<1> QED
  BY <1>2, HeldAfterSettle DEF IInv

LEMMA CrashKeeps ==
  ASSUME IInv, NEW w \in Worker, Crash(w)
  PROVE  HeldInv' /\ CurInv'
<1>1. OthersKeep(w) /\ stage'[w] = "off" /\ \A i \in Item : held'[w][i] = 0
  BY DEF Crash, IInv, TypeOK, OthersKeep, NoneHeld
<1>2. \A v \in Worker \ {w}, i \in Item : held[v][i] # 0 => RowPart(v, i)'
  BY <1>1, RowsUntouched DEF IInv, Crash
<1> QED
  BY <1>1, <1>2, HeldAfterStep, CurAfterStep DEF IInv, Busy, Crash

\* A lease a tick holds ages with the tick, and its row with the clock.
LEMMA AdvanceKeeps ==
  ASSUME IInv, Advance
  PROVE  HeldInv' /\ CurInv'
<1>1. UNCHANGED <<stage, held, cur, delivered, status, lease>>
  BY DEF Advance, Age
<1>2. ASSUME NEW w \in Worker, NEW i \in Item, held'[w][i] # 0 PROVE HeldRow(w, i)'
  <2>1. HeldRow(w, i)
    BY <1>1, <1>2 DEF IInv, HeldInv
  <2>2. inFlight[w]
    BY <2>1 DEF HeldRow, Busy, IInv, LoopInv, LoopStaysAlive
  <2>3. lag'[w] = lag[w] + 1 /\ lag[w] < MaxLag /\ lag[w] \in Nat
    BY <2>2, OutboxAssumption DEF Advance, IInv, TypeOK
  <2>4. status[i] = "processing" /\ until[i] = Lease - lag[w] => until'[i] = Lease - lag'[w]
    BY <2>3, OutboxAssumption DEF Advance, Age
  <2> QED
    BY <1>1, <2>1, <2>3, <2>4, OutboxAssumption DEF HeldRow, RowPart
<1> QED
  BY <1>1, <1>2 DEF HeldInv, IInv, CurInv

LEMMA SubmitKeeps ==
  ASSUME IInv, NEW i \in Item, NEW d \in Delays, Submit(i, d)
  PROVE  HeldInv' /\ CurInv'
<1>1. UNCHANGED <<stage, held, cur, lag, delivered, lease>>
  BY DEF Submit, Enqueue, tickVars
<1>2. \A j \in Item : status[j] # "absent" => status'[j] = status[j] /\ until'[j] = until[j]
  BY DEF Submit, Enqueue, IInv, TypeOK, RowsTypeOK
<1>3. ASSUME NEW w \in Worker, NEW j \in Item, held'[w][j] # 0 PROVE HeldRow(w, j)'
  BY <1>1, <1>2, <1>3 DEF IInv, HeldInv, HeldRow, RowPart
<1> QED
  BY <1>1, <1>3 DEF HeldInv, IInv, CurInv
-----------------------------------------------------------------------------
(* Every step keeps the invariant *)

LEMMA HeldStep ==
  ASSUME IInv, [Next]_vars
  PROVE  HeldInv' /\ CurInv'
<1>1. ASSUME NEW w \in Worker, Start(w) \/ Fire(w) \/ Stop(w) PROVE HeldInv' /\ CurInv'
  <2>1. UNCHANGED <<rowVars, held, cur, lag, delivered>>
    BY <1>1 DEF Start, Fire, Stop, tickVars
  <2>2. \A v \in Worker : stage[v] \in Busy \/ stage'[v] \in Busy => stage'[v] = stage[v]
    BY <1>1 DEF Start, Fire, Stop, tickVars, Busy, IInv, TypeOK, LoopInv, LoopStaysAlive
  <2> QED
    BY <2>1, <2>2, HeldIfUnchanged DEF IInv
<1>2. ASSUME NEW w \in Worker, HandlerThrows(w) \/ SuccessIsStale(w)
      PROVE  HeldInv' /\ CurInv'
  <2>1. /\ MoveTo(w, "failing") /\ stage[w] \in Busy
        /\ UNCHANGED rowVars /\ delivered' = delivered
    BY <1>2 DEF HandlerThrows, SuccessIsStale, Busy
  <2> QED
    BY <2>1, HeldAfterMove, GoesToFailing DEF Busy
<1>3. ASSUME NEW w \in Worker, SuccessIsMarked(w) \/ FailureIsMarked(w)
      PROVE  HeldInv' /\ CurInv'
  <2>1. /\ DoneWith(w) /\ delivered' = delivered
        /\ stage[w] \in {"succeeding", "failing"}
        /\ \/ MarkSucceeded(cur[w], LeaseOf(w))
           \/ MarkFailed(cur[w], LeaseOf(w), Retry - lag[w])
    BY <1>3 DEF SuccessIsMarked, FailureIsMarked
  <2>2. HeldInv'
    BY <2>1, HeldAfterMark
  <2>3. /\ OthersKeep(w)
        /\ \/ stage'[w] = "counting"
           \/ stage'[w] = "handling" /\ cur'[w] \in Item /\ held'[w][cur'[w]] # 0
    BY <2>1, DoneWithEffect DEF IInv, Busy
  <2>4. CurInv'
    BY <2>1, <2>3, CurAfterStep DEF IInv, Busy
  <2> QED
    BY <2>2, <2>4
<1>4. ASSUME NEW w \in Worker, FailureIsStale(w) \/ CountReturns(w) \/ CountThrows(w)
      PROVE  HeldInv' /\ CurInv'
  <2>1. Settle(w) /\ UNCHANGED <<rowVars, delivered>>
    BY <1>4 DEF FailureIsStale, CountReturns, CountThrows, Abandon
  <2> QED
    BY <2>1, SettleKeeps
<1>5. CASE UNCHANGED vars
  <2>1. UNCHANGED <<rowVars, held, cur, lag, delivered, stage>>
    BY <1>5 DEF vars, tickVars
  <2> QED
    BY <2>1, HeldIfUnchanged DEF IInv
<1> QED
  BY <1>1, <1>2, <1>3, <1>4, <1>5, ClaimReturnsKeeps, ClaimThrowsKeeps,
     HandlerReturnsKeeps, SuccessThrowsKeeps, FailureThrowsKeeps, CrashKeeps,
     AdvanceKeeps, SubmitKeeps
  DEF Next, Tick

LEMMA LoopStep ==
  ASSUME TypeOK, LoopInv, [Next]_vars
  PROVE  LoopInv'
<1> USE DEF LoopInv, LoopStaysAlive, StopDrains, TypeOK
<1>1. ASSUME NEW w \in Worker, Start(w) \/ Fire(w) \/ Stop(w) \/ Crash(w) PROVE LoopInv'
  <2>1. CASE Start(w)
    BY <2>1 DEF Start
  <2>2. CASE Fire(w)
    BY <2>2 DEF Fire
  <2>3. CASE Stop(w)
    BY <2>3 DEF Stop, tickVars
  <2>4. CASE Crash(w)
    BY <2>4 DEF Crash
  <2> QED
    BY <1>1, <2>1, <2>2, <2>3, <2>4
<1>2. ASSUME NEW w \in Worker, Settle(w), stage[w] \notin {"off", "idle"} PROVE LoopInv'
  BY <1>2 DEF Settle
<1>3. ASSUME NEW w \in Worker, NEW s \in {"handling", "succeeding", "failing", "counting"},
             stage[w] \notin {"off", "idle"}, stage' = [stage EXCEPT ![w] = s],
             UNCHANGED loopVars
      PROVE  LoopInv'
  BY <1>3 DEF loopVars
<1>4. CASE UNCHANGED <<stage, loopVars>>
  BY <1>4 DEF loopVars
<1>5. ASSUME NEW w \in Worker, Tick(w) PROVE LoopInv'
  <2>1. CASE ClaimThrows(w) \/ FailureIsStale(w) \/ FailureThrows(w) \/ CountReturns(w)
             \/ CountThrows(w)
    BY <1>2, <2>1 DEF ClaimThrows, FailureIsStale, FailureThrows, CountReturns,
       CountThrows, Abandon
  <2>2. CASE HandlerReturns(w) \/ HandlerThrows(w) \/ SuccessIsStale(w) \/ SuccessThrows(w)
    BY <1>3, <2>2 DEF HandlerReturns, HandlerThrows, SuccessIsStale, SuccessThrows, MoveTo
  <2>3. CASE ClaimReturns(w) \/ SuccessIsMarked(w) \/ FailureIsMarked(w)
    BY <1>3, <2>3 DEF ClaimReturns, SuccessIsMarked, FailureIsMarked, DoneWith, TakeNext
  <2> QED
    BY <1>5, <2>1, <2>2, <2>3 DEF Tick
<1>6. ASSUME Advance \/ (\E i \in Item, d \in Delays : Submit(i, d)) PROVE LoopInv'
  <2>1. UNCHANGED <<stage, loopVars>>
    BY <1>6 DEF Advance, Submit, tickVars
  <2> QED
    BY <1>4, <2>1
<1>7. CASE UNCHANGED vars
  BY <1>4, <1>7 DEF vars, tickVars
<1> QED
  BY <1>1, <1>5, <1>6, <1>7 DEF Next

\* A succeeded row keeps its status and its lease, and a delivery stays made.
LEMMA SucceededStays ==
  ASSUME IInv, [Next]_vars, NEW i \in Item
  PROVE  /\ status[i] = "succeeded" => status'[i] = "succeeded" /\ lease'[i] = lease[i]
         /\ delivered[i] \subseteq delivered'[i]
<1> USE DEF IInv, TypeOK, RowsTypeOK
<1>1. ASSUME NEW S \in SUBSET Item, NEW l, NEW hidden, Claim(S, l, hidden)
      PROVE  status[i] = "succeeded" => status'[i] = "succeeded" /\ lease'[i] = lease[i]
  BY <1>1 DEF Claim, IsBatch, Claimable
<1>2. ASSUME NEW j, NEW l, NEW d, MarkSucceeded(j, l) \/ MarkFailed(j, l, d)
      PROVE  status[i] = "succeeded" => status'[i] = "succeeded" /\ lease'[i] = lease[i]
  BY <1>2 DEF MarkSucceeded, MarkFailed, HoldsLease
<1>3. ASSUME NEW j, NEW d, Enqueue(j, d)
      PROVE  status[i] = "succeeded" => status'[i] = "succeeded" /\ lease'[i] = lease[i]
  BY <1>3 DEF Enqueue
<1>4. ASSUME Age
      PROVE  status[i] = "succeeded" => status'[i] = "succeeded" /\ lease'[i] = lease[i]
  BY <1>4 DEF Age
<1>5. status[i] = "succeeded" => status'[i] = "succeeded" /\ lease'[i] = lease[i]
  <2>1. ASSUME NEW w \in Worker, ClaimReturns(w) \/ ClaimThrows(w)
        PROVE  status[i] = "succeeded" => status'[i] = "succeeded" /\ lease'[i] = lease[i]
    BY <1>1, <2>1 DEF ClaimReturns, ClaimThrows, rowVars
  <2>2. ASSUME NEW w \in Worker, \/ SuccessIsMarked(w) \/ SuccessThrows(w)
                                 \/ FailureIsMarked(w) \/ FailureThrows(w)
        PROVE  status[i] = "succeeded" => status'[i] = "succeeded" /\ lease'[i] = lease[i]
    BY <1>2, <2>2 DEF SuccessIsMarked, SuccessThrows, FailureIsMarked, FailureThrows, rowVars
  <2>3. ASSUME NEW w \in Worker,
               \/ Start(w) \/ Fire(w) \/ Stop(w) \/ Crash(w)
               \/ HandlerReturns(w) \/ HandlerThrows(w) \/ SuccessIsStale(w)
               \/ FailureIsStale(w) \/ CountReturns(w) \/ CountThrows(w)
        PROVE  UNCHANGED rowVars
    BY <2>3 DEF Start, Fire, Stop, Crash, HandlerReturns, HandlerThrows, SuccessIsStale,
                FailureIsStale, CountReturns, CountThrows
  <2>4. CASE Advance \/ \E j \in Item, d \in Delays : Submit(j, d)
    BY <1>3, <1>4, <2>4 DEF Advance, Submit
  <2>5. CASE UNCHANGED vars
    BY <2>5 DEF vars, rowVars
  <2> QED
    BY <2>1, <2>2, <2>3, <2>4, <2>5 DEF rowVars, Next, Tick
<1>6. delivered[i] \subseteq delivered'[i]
  <2>1. UNCHANGED delivered \/ \E w \in Worker : HandlerReturns(w)
    BY DEF Next, Tick, vars, Start, Fire, Stop, Crash, Advance, Submit, ClaimReturns, ClaimThrows,
        HandlerThrows, SuccessIsMarked, SuccessIsStale, SuccessThrows,
        FailureIsMarked, FailureIsStale, FailureThrows, CountReturns, CountThrows
  <2> QED
    BY <2>1 DEF HandlerReturns
<1> QED
  BY <1>5, <1>6

\* A row that becomes "succeeded" is marked by a worker that delivered it.
LEMMA SucceededStep ==
  ASSUME IInv, [Next]_vars
  PROVE  SucceededUnderItsOwnLease'
<1> SUFFICES ASSUME NEW i \in Item, status'[i] = "succeeded"
             PROVE  lease'[i] \in delivered'[i]
  BY DEF SucceededUnderItsOwnLease
<1>1. CASE status[i] = "succeeded"
  BY <1>1, SucceededStays DEF IInv, SucceededUnderItsOwnLease
<1>2. CASE status[i] # "succeeded"
  <2>1. PICK w \in Worker : /\ stage[w] = "succeeding"
                            /\ MarkSucceeded(cur[w], LeaseOf(w))
    BY <1>2
    DEF Next, Tick, vars, rowVars, Start, Fire, Stop, Crash, Advance, Age, Submit, Enqueue,
        ClaimReturns, ClaimThrows, Claim, HandlerReturns, HandlerThrows, SuccessIsMarked,
        SuccessIsStale, SuccessThrows, FailureIsMarked, FailureIsStale, FailureThrows,
        MarkFailed, CountReturns, CountThrows, IInv, TypeOK, RowsTypeOK
  <2>2. i = cur[w] /\ lease'[i] = lease[i] /\ lease[i] = held[w][i]
    BY <1>2, <2>1 DEF MarkSucceeded, HoldsLease, LeaseOf, IInv, TypeOK, RowsTypeOK
  <2>3. held[w][i] \in delivered[i]
    BY <2>1, <2>2 DEF IInv, CurInv
  <2> QED
    BY <2>2, <2>3, SucceededStays
<1> QED
  BY <1>1, <1>2

LEMMA InvInit == Init => IInv
<1> SUFFICES ASSUME Init PROVE IInv
  OBVIOUS
<1>1. TypeOK
  BY TypeInit
<1>2. HeldInv /\ CurInv /\ SucceededUnderItsOwnLease
  BY DEF Init, RowsInit, NoneHeld, HeldInv, CurInv, Busy, SucceededUnderItsOwnLease
<1>3. LoopInv
  BY DEF Init, LoopInv, LoopStaysAlive, StopDrains
<1> QED
  BY <1>1, <1>2, <1>3 DEF IInv

LEMMA InvStep == IInv /\ [Next]_vars => IInv'
BY TypeStep, HeldStep, SucceededStep, LoopStep DEF IInv

THEOREM Invariance == Spec => []IInv
BY InvInit, InvStep, PTL DEF Spec
-----------------------------------------------------------------------------
(* What the invariant gives *)

\* No two workers ever hold one row under the same lease id, and no worker
\* is ahead of the table: "Stale workers cannot mark a newer reclaimed lease".
THEOREM Fencing == Spec => []LeasesAreFenced
<1>1. IInv => LeasesAreFenced
  BY DEF IInv, HeldInv, HeldRow, RowPart, LeasesAreFenced
<1> QED
  BY <1>1, Invariance, PTL

\* A worker loses a row it still has in its batch only after its lease is out.
THEOREM Expiry == Spec => []SupersededOnlyAfterExpiry
<1>1. IInv => SupersededOnlyAfterExpiry
  BY DEF IInv, HeldInv, HeldRow, RowPart, SupersededOnlyAfterExpiry
<1> QED
  BY <1>1, Invariance, PTL

\* A row is "succeeded" only if its handler returned under the row's lease.
THEOREM DeliveredBeforeSucceeded == Spec => []SucceededUnderItsOwnLease
BY Invariance, PTL DEF IInv

\* No error of the store or of the handler ends or doubles the worker's loop.
THEOREM LoopSurvives == Spec => []LoopStaysAlive
BY Invariance, PTL DEF IInv, LoopInv

\* A resolved stop() means that no tick is in flight and no timer armed.
THEOREM StopIsADrain == Spec => []StopDrains
BY Invariance, PTL DEF IInv, LoopInv

\* The three facts about leases together: the property the runs check.
THEOREM LeasesHold == Spec => []LeasesProtect
BY Fencing, Expiry, DeliveredBeforeSucceeded, PTL DEF LeasesProtect

\* The loop of a worker neither dies nor outlives its stop().
THEOREM LoopIsKept == Spec => []LoopIsSound
BY LoopSurvives, StopIsADrain, PTL DEF LoopIsSound

\* Nothing changes a row that has succeeded.
THEOREM Finality == Spec => SucceededIsFinal
<1>1. IInv /\ [Next]_vars =>
        [\A i \in Item : status[i] = "succeeded" =>
           status'[i] = "succeeded" /\ lease'[i] = lease[i]]_vars
  BY SucceededStays
<1> QED
  BY <1>1, Invariance, PTL DEF Spec, SucceededIsFinal
-----------------------------------------------------------------------------
(* The outbox and its workers implement the leased queue *)

LEMMA QueueStateExcept ==
  ASSUME TypeOK, NEW i \in Item, NEW s \in Status, status' = [status EXCEPT ![i] = s]
  PROVE  QueueState' = [QueueState EXCEPT ![i] = StandsFor[s]]
BY DEF QueueState, TypeOK, RowsTypeOK

LEMMA AcquireStep ==
  ASSUME TypeOK, NEW S \in SUBSET Item, NEW l, NEW hidden, Claim(S, l, hidden), delivered' = delivered
  PROVE  Queue!Acquire(S)
<1>1. \A i \in S : status[i] \in {"pending", "processing"}
  BY DEF Claim, IsBatch, Claimable
<1>2. \A i \in S : QueueState[i] \in {"queued", "held"}
  BY <1>1 DEF QueueState, StandsFor
<1>3. QueueState' = [i \in Item |-> IF i \in S THEN "held" ELSE QueueState[i]]
  BY DEF Claim, QueueState, StandsFor, TypeOK, RowsTypeOK, Status
<1>4. lease' = [i \in Item |-> IF i \in S THEN lease[i] + 1 ELSE lease[i]]
  BY DEF Claim
<1> QED
  BY <1>2, <1>3, <1>4 DEF Queue!Acquire

LEMMA FinishStep ==
  ASSUME IInv, NEW w \in Worker, stage[w] = "succeeding",
         MarkSucceeded(cur[w], LeaseOf(w)), delivered' = delivered
  PROVE  Queue!Next
<1>1. cur[w] \in Item /\ held[w][cur[w]] \in delivered[cur[w]]
  BY DEF IInv, CurInv, Busy
<1>2. status[cur[w]] = "processing" /\ lease[cur[w]] \in delivered[cur[w]] /\ lease' = lease
  BY <1>1 DEF MarkSucceeded, HoldsLease, LeaseOf
<1>3. QueueState' = [QueueState EXCEPT ![cur[w]] = "done"]
  BY <1>1, QueueStateExcept DEF MarkSucceeded, StandsFor, Status, IInv
<1>4. QueueState[cur[w]] = "held"
  BY <1>1, <1>2 DEF QueueState, StandsFor
<1> QED
  BY <1>1, <1>2, <1>3, <1>4 DEF Queue!Next, Queue!Finish

LEMMA ReleaseStep ==
  ASSUME IInv, NEW w \in Worker, stage[w] = "failing", NEW d,
         MarkFailed(cur[w], LeaseOf(w), d), delivered' = delivered
  PROVE  Queue!Next
<1>1. cur[w] \in Item
  BY DEF IInv, CurInv, Busy
<1>2. status[cur[w]] = "processing" /\ lease' = lease
  BY <1>1 DEF MarkFailed, HoldsLease
<1>3. QueueState' = [QueueState EXCEPT ![cur[w]] = "queued"]
  BY <1>1, QueueStateExcept DEF MarkFailed, StandsFor, Status, IInv
<1>4. QueueState[cur[w]] = "held"
  BY <1>1, <1>2 DEF QueueState, StandsFor
<1> QED
  BY <1>1, <1>2, <1>3, <1>4 DEF Queue!Next, Queue!Release

LEMMA DeliverStep ==
  ASSUME IInv, NEW w \in Worker, HandlerReturns(w)
  PROVE  Queue!Next
<1>1. cur[w] \in Item /\ LeaseOf(w) # 0
  BY DEF HandlerReturns, IInv, CurInv, Busy, LeaseOf
<1>2. LeaseOf(w) <= lease[cur[w]]
  BY <1>1 DEF LeaseOf, IInv, HeldInv, HeldRow, RowPart
<1>3. LeaseOf(w) \in Nat /\ lease[cur[w]] \in Nat
  <2>1. held[w] \in [Item -> Nat]
    BY DEF IInv, TypeOK
  <2> QED
    BY <1>1, <2>1 DEF LeaseOf, IInv, TypeOK, RowsTypeOK
<1>4. LeaseOf(w) \in 1 .. lease[cur[w]]
  BY <1>1, <1>2, <1>3
<1>5. QueueState' = QueueState /\ lease' = lease
  BY DEF HandlerReturns, rowVars, QueueState
<1>6. Queue!Deliver(cur[w], LeaseOf(w))
  BY <1>4, <1>5 DEF Queue!Deliver, HandlerReturns
<1> QED
  BY <1>1, <1>4, <1>6 DEF Queue!Next

LEMMA AddStep ==
  ASSUME TypeOK, NEW i \in Item, NEW d, Enqueue(i, d), delivered' = delivered
  PROVE  [Queue!Next]_(Queue!vars)
<1>1. CASE status[i] = "absent"
  <2>1. QueueState[i] = "absent" /\ lease' = lease
    BY <1>1 DEF QueueState, StandsFor, Enqueue
  <2>2. QueueState' = [QueueState EXCEPT ![i] = "queued"]
    BY <1>1, QueueStateExcept DEF Enqueue, StandsFor, Status
  <2> QED
    BY <2>1, <2>2 DEF Queue!Next, Queue!Add
<1>2. CASE status[i] # "absent"
  <2>1. status' = status /\ lease' = lease
    BY <1>2 DEF Enqueue, TypeOK, RowsTypeOK
  <2> QED
    BY <2>1 DEF QueueState, Queue!vars
<1> QED
  BY <1>1, <1>2

LEMMA RefinementStep ==
  ASSUME IInv, [Next]_vars
  PROVE  [Queue!Next]_(Queue!vars)
<1>1. ASSUME UNCHANGED <<status, lease, delivered>> PROVE UNCHANGED Queue!vars
  BY <1>1 DEF Queue!vars, QueueState
<1>2. ASSUME NEW w \in Worker, ClaimReturns(w) \/ ClaimThrows(w)
      PROVE  [Queue!Next]_(Queue!vars)
  <2>1. delivered' = delivered
    BY <1>2 DEF ClaimReturns, ClaimThrows
  <2>2. CASE \E S, hidden \in SUBSET Item : Claim(S, lag[w], hidden)
    BY <2>1, <2>2, AcquireStep DEF IInv, Queue!Next
  <2>3. CASE UNCHANGED rowVars
    BY <1>1, <2>1, <2>3 DEF rowVars
  <2> QED
    BY <1>2, <2>2, <2>3 DEF ClaimReturns, ClaimThrows
<1>3. ASSUME NEW w \in Worker, \/ SuccessIsMarked(w) \/ SuccessThrows(w)
                               \/ FailureIsMarked(w) \/ FailureThrows(w)
      PROVE  [Queue!Next]_(Queue!vars)
  <2>1. delivered' = delivered
    BY <1>3 DEF SuccessIsMarked, SuccessThrows, FailureIsMarked, FailureThrows
  <2>2. \/ UNCHANGED rowVars
        \/ stage[w] = "succeeding" /\ MarkSucceeded(cur[w], LeaseOf(w))
        \/ stage[w] = "failing" /\ MarkFailed(cur[w], LeaseOf(w), Retry - lag[w])
    BY <1>3 DEF SuccessIsMarked, SuccessThrows, FailureIsMarked, FailureThrows
  <2> QED
    BY <1>1, <2>1, <2>2, FinishStep, ReleaseStep DEF rowVars
<1>4. ASSUME NEW w \in Worker,
             \/ Start(w) \/ Fire(w) \/ Stop(w) \/ Crash(w)
             \/ HandlerThrows(w) \/ SuccessIsStale(w)
             \/ FailureIsStale(w) \/ CountReturns(w) \/ CountThrows(w)
      PROVE  UNCHANGED <<status, lease, delivered>>
  BY <1>4 DEF Start, Fire, Stop, Crash, HandlerThrows, SuccessIsStale,
              FailureIsStale, CountReturns, CountThrows, rowVars
<1>5. ASSUME NEW i \in Item, NEW d \in Delays, Submit(i, d)
      PROVE  [Queue!Next]_(Queue!vars)
  BY <1>5, AddStep DEF Submit, IInv
<1>6. CASE Advance \/ UNCHANGED vars
  BY <1>1, <1>6 DEF Advance, Age, vars, rowVars
<1> QED
  BY <1>1, <1>2, <1>3, <1>4, <1>5, <1>6, DeliverStep DEF Next, Tick

\* The table with its workers is a leased queue: an item is handed out under
\* fresh tokens until it is finished under the current, delivered one.
THEOREM Refinement == Spec => ImplementsLeasedQueue
<1>1. Init => Queue!Init
  BY DEF Init, RowsInit, Queue!Init, QueueState, StandsFor
<1> QED
  BY <1>1, RefinementStep, Invariance, PTL DEF Spec, ImplementsLeasedQueue, Queue!Spec
-----------------------------------------------------------------------------
(***************************************************************************)
(* When every tick fits in its lease, a row is claimed once more than      *)
(* things went wrong, at most.  A claim has its setback still to come as   *)
(* long as the row is in good hands, or for ever if it succeeds; whoever   *)
(* drops a row without marking it has had its setback before.              *)
(***************************************************************************)

InGoodHands(i) == \E w \in Worker : held[w][i] # 0 /\ stage[w] # "failing"

Cost ==
  \A i \in Item :
    /\ lease[i] <= setbacks + 1
    /\ lease[i] <= setbacks \/ status[i] = "succeeded" \/ InGoodHands(i)

\* Then whoever holds a row holds its current lease, and nobody else does.
LEMMA HeldAlone ==
  ASSUME IInv, MaxLag < Lease, NEW w \in Worker, NEW i \in Item, held[w][i] # 0
  PROVE  /\ stage[w] \in Busy /\ RowPart(w, i) /\ held[w][i] = lease[i]
         /\ \A v \in Worker \ {w} : held[v][i] = 0
<1> USE OutboxAssumption
<1>1. ASSUME NEW v \in Worker, held[v][i] # 0 PROVE HeldRow(v, i) /\ held[v][i] = lease[i]
  <2>1. HeldRow(v, i)
    BY <1>1 DEF IInv, HeldInv
  <2>2. held[v][i] \in Nat /\ lease[i] \in Nat /\ lag[v] \in 0 .. MaxLag
    BY DEF IInv, TypeOK, RowsTypeOK
  <2>3. ~ (lag[v] >= Lease)
    BY <2>2
  <2> QED
    BY <2>1, <2>2, <2>3 DEF HeldRow, RowPart
<1>2. HeldRow(w, i) /\ held[w][i] = lease[i]
  BY <1>1
<1>3. ASSUME NEW v \in Worker \ {w} PROVE held[v][i] = 0
  <2>1. held[v][i] # held[w][i]
    BY <1>2 DEF HeldRow
  <2> QED
    BY <1>1, <1>2, <2>1
<1> QED
  BY <1>2, <1>3 DEF HeldRow

\* What may be claimed is in nobody's hands.
LEMMA ClaimableIsFree ==
  ASSUME IInv, MaxLag < Lease, NEW w \in Worker, NEW i \in Item, Claimable(i, lag[w])
  PROVE  \A v \in Worker : held[v][i] = 0
<1> SUFFICES ASSUME NEW v \in Worker, held[v][i] # 0 PROVE FALSE
  OBVIOUS
<1>1. RowPart(v, i) /\ held[v][i] = lease[i]
  BY HeldAlone
<1>2. until[i] = Lease - lag[v]
  BY <1>1 DEF RowPart, Claimable
<1>3. lag[v] \in 0 .. MaxLag /\ lag[w] \in 0 .. MaxLag
  BY DEF IInv, TypeOK
<1> QED
  BY <1>2, <1>3, OutboxAssumption DEF Claimable

\* Steps that claim nothing and fail nothing.
LEMMA CostKept ==
  ASSUME Cost, setbacks' = setbacks,
         \A i \in Item :
           /\ lease'[i] = lease[i]
           /\ status[i] = "succeeded" => status'[i] = "succeeded"
           /\ InGoodHands(i) => InGoodHands(i)' \/ status'[i] = "succeeded"
  PROVE  Cost'
BY DEF Cost

\* A setback pays for the claims before it.
LEMMA CostPaid ==
  ASSUME Cost, TypeOK, Setback, \A i \in Item : lease'[i] = lease[i]
  PROVE  Cost'
BY DEF Cost, Setback, TypeOK, RowsTypeOK

\* A claim takes rows whose setbacks have come.
LEMMA CostOfClaim ==
  ASSUME Cost, IInv, MaxLag < Lease, NEW w \in Worker, NEW S \in SUBSET Item, NEW hidden,
         Claim(S, lag[w], hidden), NEW i \in S
  PROVE  lease[i] <= setbacks /\ lease'[i] = lease[i] + 1
<1>1. Claimable(i, lag[w])
  BY DEF Claim, IsBatch
<1>2. ~ InGoodHands(i)
  BY <1>1, ClaimableIsFree DEF InGoodHands
<1> QED
  BY <1>1, <1>2 DEF Cost, Claimable, Claim

LEMMA CostOfClaimReturns ==
  ASSUME Cost, IInv, MaxLag < Lease, NEW w \in Worker, ClaimReturns(w)
  PROVE  Cost'
<1>1. PICK S \in SUBSET Item, hidden \in SUBSET Item :
        /\ IF hidden = {} THEN UNCHANGED setbacks ELSE Setback
        /\ Claim(S, lag[w], hidden)
        /\ TakeNext(w, [i \in Item |-> IF i \in S THEN lease[i] + 1 ELSE 0])
  BY DEF ClaimReturns
<1> DEFINE left == [i \in Item |-> IF i \in S THEN lease[i] + 1 ELSE 0]
<1>2. left \in [Item -> Nat]
  BY DEF IInv, TypeOK, RowsTypeOK
<1>3. /\ OthersKeep(w) /\ held'[w] = left
      /\ stage'[w] = "counting" \/ stage'[w] = "handling"
  BY <1>1, <1>2, TakeNextEffect DEF IInv
<1>4. setbacks \in Nat /\ setbacks' \in Nat /\ setbacks <= setbacks'
  BY <1>1 DEF Setback, IInv, TypeOK
<1>5. ASSUME NEW i \in Item
      PROVE  lease'[i] <= setbacks' + 1
             /\ (lease'[i] <= setbacks' \/ status'[i] = "succeeded" \/ InGoodHands(i)')
  <2>0. lease[i] \in Nat
    BY DEF IInv, TypeOK, RowsTypeOK
  <2>1. CASE i \in S
    <3>1. lease[i] <= setbacks /\ lease'[i] = lease[i] + 1
      BY <1>1, <2>1, CostOfClaim
    <3>2. held'[w][i] = lease[i] + 1
      BY <1>3, <2>1
    <3>3. InGoodHands(i)'
      BY <1>3, <3>2, <2>0 DEF InGoodHands
    <3> QED
      BY <1>4, <2>0, <3>1, <3>3
  <2>2. CASE i \notin S
    <3>1. lease'[i] = lease[i] /\ status'[i] = status[i]
      BY <1>1, <2>2 DEF Claim
    <3>2. InGoodHands(i) => InGoodHands(i)'
      <4> SUFFICES ASSUME NEW v \in Worker, held[v][i] # 0, stage[v] # "failing"
                   PROVE  InGoodHands(i)'
        BY DEF InGoodHands
      <4>1. stage[v] \in Busy
        BY HeldAlone
      <4>2. v # w
        BY <4>1 DEF ClaimReturns, Busy
      <4> QED
        BY <1>3, <4>2 DEF OthersKeep, InGoodHands
    <3> QED
      BY <1>4, <2>0, <3>1, <3>2 DEF Cost
  <2> QED
    BY <2>1, <2>2
<1> QED
  BY <1>5 DEF Cost

LEMMA CostOfClaimThrows ==
  ASSUME Cost, IInv, MaxLag < Lease, NEW w \in Worker, ClaimThrows(w)
  PROVE  Cost'
<1>1. CASE UNCHANGED rowVars
  BY <1>1, CostPaid DEF ClaimThrows, rowVars, IInv
<1>2. ASSUME NEW S \in SUBSET Item, NEW hidden \in SUBSET Item, Claim(S, lag[w], hidden)
      PROVE  Cost'
  <2> SUFFICES ASSUME NEW i \in Item
               PROVE  lease'[i] <= setbacks' /\ lease'[i] <= setbacks' + 1
    BY DEF Cost
  <2>1. lease[i] \in Nat /\ setbacks \in Nat /\ setbacks' = setbacks + 1
    BY DEF ClaimThrows, Setback, IInv, TypeOK, RowsTypeOK
  <2>2. CASE i \in S
    <3>1. lease[i] <= setbacks /\ lease'[i] = lease[i] + 1
      BY <1>2, <2>2, CostOfClaim
    <3> QED
      BY <2>1, <3>1
  <2>3. CASE i \notin S
    BY <1>2, <2>1, <2>3 DEF Claim, Cost
  <2> QED
    BY <2>2, <2>3
<1> QED
  BY <1>1, <1>2 DEF ClaimThrows

\* A worker that goes on after a mark leaves its row to success or has paid for it.
LEMMA CostOfMark ==
  ASSUME Cost, IInv, NEW w \in Worker, SuccessIsMarked(w) \/ FailureIsMarked(w)
  PROVE  Cost'
<1>1. stage[w] \in {"succeeding", "failing"} /\ stage[w] \in Busy
  BY DEF SuccessIsMarked, FailureIsMarked, Busy
<1>2. DoneWith(w) /\ setbacks' = setbacks
  BY DEF SuccessIsMarked, FailureIsMarked
<1>3. /\ OthersKeep(w) /\ cur[w] \in Item
      /\ \A i \in Item : held'[w][i] = IF i = cur[w] THEN 0 ELSE held[w][i]
      /\ stage'[w] = "counting" \/ stage'[w] = "handling"
  BY <1>1, <1>2, DoneWithEffect DEF IInv
<1>4. lease' = lease
  BY DEF SuccessIsMarked, FailureIsMarked, MarkSucceeded, MarkFailed
<1>5. ASSUME NEW i \in Item
      PROVE  /\ status[i] = "succeeded" => status'[i] = "succeeded"
             /\ InGoodHands(i) => InGoodHands(i)' \/ status'[i] = "succeeded"
  <2>1. status[i] = "succeeded" => status'[i] = "succeeded"
    BY DEF SuccessIsMarked, FailureIsMarked, MarkSucceeded, MarkFailed, HoldsLease,
           IInv, TypeOK, RowsTypeOK
  <2>2. ASSUME NEW v \in Worker, held[v][i] # 0, stage[v] # "failing"
        PROVE  InGoodHands(i)' \/ status'[i] = "succeeded"
    <3>1. CASE v # w
      BY <1>3, <2>2, <3>1 DEF OthersKeep, InGoodHands
    <3>2. CASE v = w /\ i # cur[w]
      BY <1>3, <2>2, <3>2 DEF InGoodHands
    <3>3. CASE v = w /\ i = cur[w]
      <4>1. SuccessIsMarked(w)
        BY <2>2, <3>3 DEF FailureIsMarked
      <4> QED
        BY <4>1, <3>3 DEF SuccessIsMarked, MarkSucceeded, IInv, TypeOK, RowsTypeOK
    <3> QED
      BY <3>1, <3>2, <3>3
  <2> QED
    BY <2>1, <2>2 DEF InGoodHands
<1> QED
  BY <1>2, <1>4, <1>5, CostKept

\* A worker with nothing in hand, or nothing it has not paid for, may leave it all.
LEMMA CostOfLeaving ==
  ASSUME Cost, IInv, MaxLag < Lease, NEW w \in Worker, stage[w] \notin {"handling", "succeeding"},
         UNCHANGED <<rowVars, setbacks>>, OthersKeep(w)
  PROVE  Cost'
<1>1. ASSUME NEW i \in Item, InGoodHands(i) PROVE InGoodHands(i)'
  <2>1. PICK v \in Worker : held[v][i] # 0 /\ stage[v] # "failing"
    BY <1>1 DEF InGoodHands
  <2>2. stage[v] \in Busy
    BY <2>1, HeldAlone
  <2>3. v # w
    BY <2>1, <2>2 DEF Busy
  <2> QED
    BY <2>1, <2>3 DEF OthersKeep, InGoodHands
<1> QED
  BY <1>1, CostKept DEF rowVars

\* The mark of a success is never stale: nobody has taken the row meanwhile.
LEMMA SuccessIsFresh ==
  ASSUME IInv, MaxLag < Lease, NEW w \in Worker
  PROVE  ~ SuccessIsStale(w)
<1> SUFFICES ASSUME SuccessIsStale(w) PROVE FALSE
  OBVIOUS
<1>1. stage[w] = "succeeding" /\ cur[w] \in Item /\ held[w][cur[w]] # 0
  BY DEF SuccessIsStale, IInv, CurInv, Busy
<1>2. RowPart(w, cur[w]) /\ held[w][cur[w]] = lease[cur[w]]
  BY <1>1, HeldAlone
<1> QED
  BY <1>1, <1>2 DEF RowPart, SuccessIsStale, HoldsLease, LeaseOf

LEMMA CostStep ==
  ASSUME Cost, IInv, MaxLag < Lease, [Next]_vars
  PROVE  Cost'
<1>1. ASSUME NEW w \in Worker, ClaimReturns(w) PROVE Cost'
  BY <1>1, CostOfClaimReturns
<1>2. ASSUME NEW w \in Worker, ClaimThrows(w) PROVE Cost'
  BY <1>2, CostOfClaimThrows
<1>3. ASSUME NEW w \in Worker, SuccessIsMarked(w) \/ FailureIsMarked(w) PROVE Cost'
  BY <1>3, CostOfMark
<1>4. ASSUME NEW w \in Worker, HandlerThrows(w) \/ CountThrows(w) \/ Crash(w) PROVE Cost'
  BY <1>4, CostPaid DEF HandlerThrows, CountThrows, Crash, rowVars, IInv
<1>5. ASSUME NEW w \in Worker, SuccessThrows(w) \/ FailureThrows(w) PROVE Cost'
  <2>1. lease' = lease /\ Setback
    BY <1>5 DEF SuccessThrows, FailureThrows, MarkSucceeded, MarkFailed, rowVars
  <2> QED
    BY <2>1, CostPaid DEF IInv
<1>6. ASSUME NEW w \in Worker, SuccessIsStale(w) PROVE Cost'
  BY <1>6, SuccessIsFresh
<1>7. ASSUME NEW w \in Worker, FailureIsStale(w) \/ CountReturns(w) PROVE Cost'
  <2>1. OthersKeep(w)
    BY <1>7, SettleEffect DEF FailureIsStale, CountReturns, Abandon, IInv
  <2> QED
    BY <1>7, <2>1, CostOfLeaving DEF FailureIsStale, CountReturns
<1>8. ASSUME NEW w \in Worker, Start(w) PROVE Cost'
  BY <1>8, CostOfLeaving DEF Start, OthersKeep, IInv, TypeOK
<1>9. ASSUME NEW w \in Worker, Fire(w) PROVE Cost'
  <2>1. CASE stopped[w] \/ inFlight[w]
    BY <1>9, <2>1, CostKept DEF Fire, rowVars, InGoodHands
  <2>2. CASE ~ (stopped[w] \/ inFlight[w])
    <3>1. stage[w] \in {"off", "idle"}
      BY <2>2 DEF IInv, LoopInv, LoopStaysAlive, TypeOK
    <3> QED
      BY <1>9, <2>2, <3>1, CostOfLeaving DEF Fire, OthersKeep, IInv, TypeOK
  <2> QED
    BY <2>1, <2>2
<1>10. ASSUME NEW w \in Worker, Stop(w) PROVE Cost'
  BY <1>10, CostKept DEF Stop, rowVars, tickVars, InGoodHands
<1>11. ASSUME NEW w \in Worker, HandlerReturns(w) PROVE Cost'
  <2>1. \A i \in Item : InGoodHands(i) => InGoodHands(i)'
    BY <1>11 DEF HandlerReturns, MoveTo, InGoodHands, IInv, TypeOK
  <2> QED
    BY <1>11, <2>1, CostKept DEF HandlerReturns, rowVars
<1>12. ASSUME NEW i \in Item, NEW d \in Delays, Submit(i, d) PROVE Cost'
  <2>1. \A j \in Item : status[j] = "succeeded" => status'[j] = "succeeded"
    BY <1>12 DEF Submit, Enqueue, IInv, TypeOK, RowsTypeOK
  <2> QED
    BY <1>12, <2>1, CostKept DEF Submit, Enqueue, tickVars, InGoodHands
<1>13. CASE Advance \/ UNCHANGED vars
  BY <1>13, CostKept DEF Advance, Age, vars, rowVars, tickVars, InGoodHands
<1> QED
  BY <1>1, <1>2, <1>3, <1>4, <1>5, <1>6, <1>7, <1>8, <1>9, <1>10, <1>11, <1>12, <1>13
  DEF Next, Tick

\* While every tick fits in its lease, an item is claimed again only because something
\* failed: never merely because several workers run (outbox.ts, runOutboxWorkerOnce).
THEOREM Reclaims == Spec => []ReclaimsAreSetbacks
<1>1. CASE MaxLag < Lease
  <2>1. Init => Cost
    BY DEF Init, RowsInit, Cost
  <2>2. Cost /\ IInv /\ [Next]_vars => Cost'
    BY <1>1, CostStep
  <2>3. Cost => ReclaimsAreSetbacks
    BY DEF Cost, ReclaimsAreSetbacks
  <2> QED
    BY <2>1, <2>2, <2>3, Invariance, PTL DEF Spec
<1>2. CASE ~ (MaxLag < Lease)
  <2>1. ReclaimsAreSetbacks
    BY <1>2 DEF ReclaimsAreSetbacks
  <2> QED
    BY <2>1, PTL
<1> QED
  BY <1>1, <1>2
=============================================================================
