-------------------------- MODULE ServeProcess_proofs --------------------------
(***************************************************************************)
(* Proofs about StoreConnection, and about the process of `wats serve' and *)
(* the program that embeds the store, for any number of operations,        *)
(* closers, statements and faults.                                         *)
(*                                                                         *)
(* The argument for the store: a caller is in the chain from its call      *)
(* until it settles, once, and only the head of the chain runs.  When it   *)
(* settles nothing is under way; so a transaction is opened and ended by   *)
(* the same operation.  Since close() marks the store as it queues,        *)
(* operations stand before closers in the chain, and when a closer is its  *)
(* head they are all gone.                                                 *)
(*                                                                         *)
(* The argument for the process: while it lives, its store makes the steps *)
(* of StoreConnection, whose invariant holds; the exit may still execute   *)
(* the query under way, and after it nothing moves.                        *)
(***************************************************************************)
EXTENDS ServeProcess, SequenceTheorems, TLAPS

(* The store *)

Positions == 1..Len(chain)

\* Who is in the chain, and in what order.
QueueInv ==
  /\ \A i, j \in Positions : chain[i] = chain[j] => i = j
  /\ \A i, j \in Positions : i < j /\ chain[i] \in Closer => chain[j] \in Closer
  /\ \A c \in Caller : (\E i \in Positions : chain[i] = c) <=> stage[c] \notin {"idle", "settled"}
  /\ \A c \in Closer : stage[c] \in {"idle", "waiting", "settled"}
  /\ \A c \in Closer : stage[c] # "idle" => closing

\* What an operation has done when, and where it is.
WorkInv ==
  \A c \in Op :
    /\ stage[c] \in {"idle", "waiting"} => work[c] = 0 /\ pending[c] = 0 /\ kept[c] = 0
    /\ stage[c] \in {"committing", "rollingBack"} => c \in TxOp
    /\ c \notin Begun => pending[c] = 0
    /\ c \notin TxOp => pending[c] = 0 /\ kept[c] = work[c]
    /\ c \in Begun \cap TxOp => tx /\ pending[c] = work[c] /\ kept[c] = 0

\* While an operation runs, the connection is there.
LinkInv ==
  /\ Begun # {} => Up
  /\ ended => closed

\* What has begun is the head of the chain.
TurnInv == \A c \in Begun : MayRun(c)

IInv ==
  /\ TypeOK /\ QueueInv /\ WorkInv /\ LinkInv
  /\ TurnInv /\ TransactionsAreClosed /\ ToldWhatHappened /\ NothingAfterEnd
-----------------------------------------------------------------------------
(* The chain. *)

LEMMA ChainDomain ==
  ASSUME TypeOK
  PROVE  /\ Len(chain) \in Nat /\ DOMAIN chain = Positions
         /\ \A i \in Positions : chain[i] \in Caller
BY LenProperties, ElementOfSeq DEF TypeOK, Positions

LEMMA CallersAreDistinct == Op \cap Closer = {} /\ TxOp \subseteq Op /\ Caller = Op \cup Closer
BY StoreConnectionAssumption DEF Caller

\* A call goes to the end of the chain and changes no turn.
LEMMA JoinQueue ==
  ASSUME TypeOK, QueueInv, NEW c \in Caller, stage[c] = "idle",
         chain' = Append(chain, c), stage' = [stage EXCEPT ![c] = "waiting"],
         c \in Op => ~closing, closing' = (closing \/ c \in Closer)
  PROVE  /\ QueueInv' /\ chain' \in Seq(Caller)
         /\ \A d \in Caller : MayRun(d) => MayRun(d)'
<1>1. /\ Len(chain) \in Nat /\ Len(chain') = Len(chain) + 1 /\ chain' \in Seq(Caller)
      /\ \A i \in 1..Len(chain) : chain'[i] = chain[i] /\ chain[i] \in Caller
      /\ chain'[Len(chain) + 1] = c
  BY ChainDomain DEF Positions, TypeOK
<1>2. \A i \in Positions : chain[i] # c
  BY DEF QueueInv
<1>3. \A i \in Positions' : (i \in Positions /\ chain'[i] = chain[i]) \/ (i = Len(chain) + 1 /\ chain'[i] = c)
  BY <1>1 DEF Positions
<1>4. \A i \in Positions : i \in Positions' /\ chain'[i] = chain[i]
  BY <1>1 DEF Positions
<1>5. Len(chain) + 1 \in Positions' /\ chain'[Len(chain) + 1] = c
  BY <1>1 DEF Positions
<1>6. stage'[c] = "waiting" /\ \A d \in Caller \ {c} : stage'[d] = stage[d]
  BY DEF TypeOK
<1>7. (\A i, j \in Positions : chain[i] = chain[j] => i = j)'
  <2> SUFFICES ASSUME NEW i \in Positions', NEW j \in Positions', chain'[i] = chain'[j]
               PROVE  i = j
    OBVIOUS
  <2>1. CASE i \in Positions /\ j \in Positions
    <3>1. chain[i] = chain[j]
      BY <2>1, <1>4
    <3>2. \A k, l \in Positions : chain[k] = chain[l] => k = l
      BY DEF QueueInv
    <3> QED
      BY <2>1, <3>1, <3>2
  <2>2. CASE i = Len(chain) + 1 /\ j \in Positions
    BY <2>2, <1>2, <1>4, <1>5
  <2>3. CASE j = Len(chain) + 1 /\ i \in Positions
    BY <2>3, <1>2, <1>4, <1>5
  <2> QED
    BY <2>1, <2>2, <2>3, <1>3
<1>8. (\A i, j \in Positions : i < j /\ chain[i] \in Closer => chain[j] \in Closer)'
  <2> SUFFICES ASSUME NEW i \in Positions', NEW j \in Positions', i < j, chain'[i] \in Closer
               PROVE  chain'[j] \in Closer
    OBVIOUS
  <2>1. i \in Positions /\ chain'[i] = chain[i]
    BY <1>1, <1>3 DEF Positions
  <2>2. closing
    BY <2>1, CallersAreDistinct DEF QueueInv
  <2>3. c \in Closer
    BY <2>2 DEF Caller
  <2>4. CASE j \in Positions
    BY <2>1, <2>4, <1>4 DEF QueueInv
  <2>5. CASE j = Len(chain) + 1
    BY <2>3, <2>5, <1>5
  <2> QED
    BY <1>3, <2>4, <2>5
<1>9. (\A d \in Caller : (\E i \in Positions : chain[i] = d) <=> stage[d] \notin {"idle", "settled"})'
  <2> SUFFICES ASSUME NEW d \in Caller
               PROVE  (\E i \in Positions' : chain'[i] = d) <=> stage'[d] \notin {"idle", "settled"}
    OBVIOUS
  <2>1. CASE d = c
    BY <2>1, <1>5, <1>6
  <2>2. CASE d # c
    <3>1. (\E i \in Positions' : chain'[i] = d) <=> \E i \in Positions : chain[i] = d
      BY <2>2, <1>3, <1>4
    <3> QED
      BY <2>2, <3>1, <1>6 DEF QueueInv
  <2> QED
    BY <2>1, <2>2
<1>10. (\A d \in Closer : stage[d] \in {"idle", "waiting", "settled"} /\ (stage[d] # "idle" => closing))'
  BY <1>6, CallersAreDistinct DEF QueueInv
<1>11. \A d \in Caller : MayRun(d) => MayRun(d)'
  BY <1>1 DEF MayRun, TypeOK
<1> QED
  BY <1>1, <1>7, <1>8, <1>9, <1>10, <1>11 DEF QueueInv

\* The head of the chain settles: it leaves, and nothing is under way.
LEMMA LeaveQueue ==
  ASSUME TypeOK, QueueInv, TurnInv, NEW c \in Caller, NEW r, MayRun(c), Settle(c, r), closing' = closing
  PROVE  /\ QueueInv' /\ chain' \in Seq(Caller)
         /\ Begun' = {}
         /\ Chained' \subseteq Chained
         /\ stage'[c] = "settled" /\ \A d \in Caller \ {c} : stage'[d] = stage[d]
<1>1. /\ chain # <<>> /\ c = Head(chain) /\ chain' = Tail(chain)
      /\ stage' = [stage EXCEPT ![c] = "settled"]
  BY DEF MayRun, Settle, MoveTo
<1>2. /\ Len(chain) \in Nat \ {0} /\ c = chain[1]
      /\ chain' \in Seq(Caller) /\ Len(chain') = Len(chain) - 1
      /\ \A i \in 1..Len(chain') : chain'[i] = chain[i + 1]
  BY <1>1, HeadTailProperties, EmptySeq DEF TypeOK
<1>3. \A i \in Positions' : i \in Nat /\ i + 1 \in Positions /\ chain'[i] = chain[i + 1]
  BY <1>2 DEF Positions
<1>4. \A i \in Positions : i = 1 \/ (i - 1 \in Positions' /\ chain'[i - 1] = chain[i])
  BY <1>2 DEF Positions
<1>5. stage'[c] = "settled" /\ \A d \in Caller \ {c} : stage'[d] = stage[d]
  BY <1>1 DEF TypeOK
<1>6. 1 \in Positions /\ \A i \in Positions' : chain'[i] # c
  <2>1. 1 \in Positions
    BY <1>2 DEF Positions
  <2>2. \A i \in Positions' : i + 1 # 1
    BY <1>2 DEF Positions
  <2>3. \A i \in Positions : chain[i] = chain[1] => i = 1
    BY <2>1 DEF QueueInv
  <2>4. ASSUME NEW i \in Positions' PROVE chain'[i] # c
    <3>1. i + 1 \in Positions /\ chain'[i] = chain[i + 1]
      BY <1>3
    <3>2. chain[i + 1] # chain[1]
      BY <3>1, <2>2, <2>3
    <3> QED
      BY <3>1, <3>2, <1>2
  <2> QED
    BY <2>1, <2>4
<1>7. (\A i, j \in Positions : chain[i] = chain[j] => i = j)'
  <2> SUFFICES ASSUME NEW i \in Positions', NEW j \in Positions', chain'[i] = chain'[j]
               PROVE  i = j
    OBVIOUS
  <2>1. i + 1 = j + 1
    BY <1>3 DEF QueueInv
  <2> QED
    BY <2>1, <1>3
<1>8. (\A i, j \in Positions : i < j /\ chain[i] \in Closer => chain[j] \in Closer)'
  <2> SUFFICES ASSUME NEW i \in Positions', NEW j \in Positions', i < j, chain'[i] \in Closer
               PROVE  chain'[j] \in Closer
    OBVIOUS
  <2>1. i + 1 < j + 1
    BY <1>3
  <2> QED
    BY <2>1, <1>3 DEF QueueInv
<1>9. (\A d \in Caller : (\E i \in Positions : chain[i] = d) <=> stage[d] \notin {"idle", "settled"})'
  <2> SUFFICES ASSUME NEW d \in Caller
               PROVE  (\E i \in Positions' : chain'[i] = d) <=> stage'[d] \notin {"idle", "settled"}
    OBVIOUS
  <2>1. CASE d = c
    BY <2>1, <1>5, <1>6
  <2>2. CASE d # c
    <3>1. (\E i \in Positions' : chain'[i] = d) <=> \E i \in Positions : chain[i] = d
      BY <2>2, <1>2, <1>3, <1>4
    <3> QED
      BY <2>2, <3>1, <1>5 DEF QueueInv
  <2> QED
    BY <2>1, <2>2
<1>10. (\A d \in Closer : stage[d] \in {"idle", "waiting", "settled"} /\ (stage[d] # "idle" => closing))'
  <2>1. stage[c] # "idle"
    BY <1>2, <1>6 DEF QueueInv
  <2> QED
    BY <2>1, <1>5, CallersAreDistinct DEF QueueInv
<1>11. Begun' = {}
  BY <1>5, CallersAreDistinct DEF Begun, TurnInv, MayRun
<1>12. Chained' \subseteq Chained
  <2>1. DOMAIN chain = Positions /\ DOMAIN chain' = Positions'
    BY <1>2, ChainDomain, LenProperties DEF Positions
  <2> QED
    BY <2>1, <1>3 DEF Chained
<1> QED
  BY <1>2, <1>5, <1>7, <1>8, <1>9, <1>10, <1>11, <1>12 DEF QueueInv

\* The head moves on in its operation: the chain stays as it is.
LEMMA StayInQueue ==
  ASSUME TypeOK, QueueInv, TurnInv, NEW c \in Op, MayRun(c), stage[c] \notin {"idle", "settled"},
         NEW s \in {"working", "committing", "rollingBack"},
         stage' = [stage EXCEPT ![c] = s], chain' = chain, closing' = closing
  PROVE  QueueInv' /\ TurnInv' /\ Begun' = {c}
<1>1. stage'[c] = s /\ \A d \in Caller \ {c} : stage'[d] = stage[d]
  BY DEF TypeOK, Caller
<1>2. Begun' = {c}
  BY <1>1, CallersAreDistinct DEF Begun, TurnInv, MayRun
<1>3. TurnInv'
  BY <1>2 DEF TurnInv, MayRun
<1>4. QueueInv'
  BY <1>1, CallersAreDistinct DEF QueueInv, Positions
<1> QED
  BY <1>2, <1>3, <1>4
-----------------------------------------------------------------------------
(* The steps. *)

LEMMA InvInit == Init => IInv
<1> SUFFICES ASSUME Init PROVE IInv
  OBVIOUS
<1> USE StoreConnectionAssumption DEF Init
<1>1. Positions = {} /\ Chained = {} /\ Begun = {} /\ chain \in Seq(Caller)
  BY EmptySeq, CallersAreDistinct DEF Positions, Chained, Begun
<1>2. TypeOK
  <2>1. 0 \in 0..MaxWork /\ 0 \in 0..MaxFaults
    OBVIOUS
  <2>2. work \in [Op -> 0..MaxWork] /\ pending \in [Op -> 0..MaxWork] /\ kept \in [Op -> 0..MaxWork]
    BY <2>1
  <2>3. /\ stage \in [Caller -> Stage] /\ result \in [Caller -> Result]
        /\ \A c \in Caller : (result[c] # "none" <=> stage[c] = "settled")
    BY DEF Stage, Result
  <2> QED
    BY <1>1, <2>1, <2>2, <2>3 DEF TypeOK
<1>3. QueueInv /\ WorkInv /\ LinkInv
  BY <1>1, CallersAreDistinct DEF QueueInv, WorkInv, LinkInv, Up
<1>4. TurnInv /\ TransactionsAreClosed /\ ToldWhatHappened /\ NothingAfterEnd
  BY <1>1, CallersAreDistinct DEF TurnInv, TransactionsAreClosed, ToldWhatHappened, NothingAfterEnd
<1> QED
  BY <1>2, <1>3, <1>4 DEF IInv

\* At the turn of one caller no other has begun or has anything pending.
LEMMA OthersAreStill ==
  ASSUME IInv, NEW c \in Caller, MayRun(c)
  PROVE  /\ \A d \in Op \ {c} : d \notin Begun /\ pending[d] = 0
         /\ c \notin TxOp \cap Begun => ~tx
<1>1. \A d \in Begun : d = c
  BY DEF IInv, TurnInv, MayRun
<1>2. \A d \in Op \ {c} : d \notin Begun /\ pending[d] = 0
  BY <1>1 DEF IInv, WorkInv
<1>3. c \notin TxOp \cap Begun => ~tx
  BY <1>1 DEF IInv, TransactionsAreClosed
<1> QED
  BY <1>2, <1>3

LEMMA OpSettles ==
  ASSUME IInv, NEW c \in Op, NEW r \in {"ok", "failed"}, MayRun(c), stage[c] # "idle",
         Settle(c, r), UNCHANGED <<closing, closed, ended>>,
         tx' = FALSE, lost' \in BOOLEAN, lost => lost', faults' \in 0..MaxFaults,
         work' \in [Op -> 0..MaxWork], kept' \in [Op -> 0..MaxWork], pending' \in [Op -> 0..MaxWork],
         \A d \in Op : pending'[d] = 0,
         \A d \in Op \ {c} : work'[d] = work[d] /\ kept'[d] = kept[d],
         r = "ok" => kept'[c] = work'[c],
         c \notin TxOp => kept'[c] = work'[c],
         c \in TxOp => kept'[c] \in {0, work'[c]},
         c \in TxOp /\ r = "failed" /\ ~lost' => kept'[c] = 0
  PROVE  IInv'
<1> USE CallersAreDistinct DEF IInv
<1>1. /\ QueueInv' /\ chain' \in Seq(Caller) /\ Begun' = {} /\ Chained' \subseteq Chained
      /\ stage'[c] = "settled" /\ \A d \in Caller \ {c} : stage'[d] = stage[d]
  BY LeaveQueue
<1>2. /\ stage' \in [Caller -> Stage] /\ result' \in [Caller -> Result]
      /\ result'[c] = r /\ \A d \in Caller \ {c} : result'[d] = result[d]
  BY DEF TypeOK, Settle, MoveTo, Stage, Result
<1>3. TypeOK'
  BY <1>1, <1>2 DEF TypeOK
<1>4. \A d \in Op \ {c} : d \notin Begun
  BY OthersAreStill
<1>5. WorkInv'
  <2> SUFFICES ASSUME NEW d \in Op
               PROVE  /\ stage'[d] \in {"idle", "waiting"} => work'[d] = 0 /\ pending'[d] = 0 /\ kept'[d] = 0
                      /\ stage'[d] \in {"committing", "rollingBack"} => d \in TxOp
                      /\ d \notin TxOp => kept'[d] = work'[d]
    BY <1>1 DEF WorkInv
  <2>1. CASE d = c
    BY <2>1, <1>1
  <2>2. CASE d # c
    BY <2>2, <1>1 DEF WorkInv
  <2> QED
    BY <2>1, <2>2
<1>6. LinkInv' /\ TurnInv' /\ TransactionsAreClosed' /\ NothingAfterEnd'
  BY <1>1 DEF LinkInv, TurnInv, TransactionsAreClosed, NothingAfterEnd
<1>7. ToldWhatHappened'
  <2> SUFFICES ASSUME NEW d \in Op, stage'[d] = "settled"
               PROVE  /\ result'[d] = "ok" => kept'[d] = work'[d]
                      /\ d \in TxOp => kept'[d] \in {0, work'[d]}
                      /\ d \in TxOp /\ result'[d] = "failed" /\ ~lost' => kept'[d] = 0
                      /\ result'[d] = "refused" => work'[d] = 0
    BY DEF ToldWhatHappened
  <2>1. CASE d = c
    BY <2>1, <1>2
  <2>2. CASE d # c
    BY <2>2, <1>1, <1>2 DEF ToldWhatHappened
  <2> QED
    BY <2>1, <2>2
<1> QED
  BY <1>1, <1>3, <1>5, <1>6, <1>7

\* A running operation comes to its next query.
LEMMA OpMovesOn ==
  ASSUME IInv, NEW c \in Op, MayRun(c), stage[c] \notin {"idle", "settled"}, Up,
         NEW s \in {"working", "committing", "rollingBack"},
         stage' = [stage EXCEPT ![c] = s], s # "working" => c \in TxOp,
         UNCHANGED <<closing, closed, chain, result, lost, ended>>,
         tx' \in BOOLEAN, c \in TxOp => tx', c \notin TxOp => ~tx',
         faults' \in 0..MaxFaults,
         work' \in [Op -> 0..MaxWork], kept' \in [Op -> 0..MaxWork], pending' \in [Op -> 0..MaxWork],
         \A d \in Op \ {c} : work'[d] = work[d] /\ kept'[d] = kept[d] /\ pending'[d] = pending[d],
         c \in TxOp => pending'[c] = work'[c] /\ kept'[c] = 0,
         c \notin TxOp => pending'[c] = 0 /\ kept'[c] = work'[c]
  PROVE  IInv'
<1> USE CallersAreDistinct DEF IInv
<1>1. QueueInv' /\ TurnInv' /\ Begun' = {c}
  BY StayInQueue
<1>2. /\ stage' \in [Caller -> Stage] /\ stage'[c] = s
      /\ \A d \in Caller \ {c} : stage'[d] = stage[d]
  BY DEF TypeOK, Stage
<1>3. TypeOK'
  BY <1>2 DEF TypeOK
<1>4. \A d \in Op \ {c} : d \notin Begun /\ pending[d] = 0
  BY OthersAreStill
<1>5. WorkInv'
  <2> SUFFICES ASSUME NEW d \in Op
               PROVE  /\ stage'[d] \in {"idle", "waiting"} => work'[d] = 0 /\ pending'[d] = 0 /\ kept'[d] = 0
                      /\ stage'[d] \in {"committing", "rollingBack"} => d \in TxOp
                      /\ d # c => pending'[d] = 0
                      /\ d \notin TxOp => pending'[d] = 0 /\ kept'[d] = work'[d]
                      /\ d = c /\ d \in TxOp => tx' /\ pending'[d] = work'[d] /\ kept'[d] = 0
    BY <1>1 DEF WorkInv
  <2>1. CASE d = c
    BY <2>1, <1>2
  <2>2. CASE d # c
    BY <2>2, <1>2, <1>4 DEF WorkInv
  <2> QED
    BY <2>1, <2>2
<1>6. LinkInv' /\ TransactionsAreClosed' /\ NothingAfterEnd'
  BY <1>1 DEF LinkInv, Up, TransactionsAreClosed, NothingAfterEnd, MayRun, Chained
<1>7. ToldWhatHappened'
  BY <1>2 DEF ToldWhatHappened
<1> QED
  BY <1>1, <1>3, <1>5, <1>6, <1>7

\* What is known of an operation whose turn it is.
LEMMA AtItsTurn ==
  ASSUME IInv, NEW c \in Op, c \in Begun \/ (stage[c] = "waiting" /\ MayRun(c))
  PROVE  /\ MayRun(c) /\ stage[c] \notin {"idle", "settled"} /\ result[c] = "none"
         /\ work[c] \in 0..MaxWork /\ kept[c] \in 0..MaxWork /\ pending[c] \in 0..MaxWork
         /\ c \in TxOp /\ c \in Begun => tx /\ pending[c] = work[c] /\ kept[c] = 0
         /\ c \notin TxOp \/ c \notin Begun => ~tx /\ pending[c] = 0 /\ kept[c] = work[c]
         /\ c \notin Begun => work[c] = 0
         /\ \A d \in Op \ {c} : pending[d] = 0
<1> USE CallersAreDistinct DEF IInv
<1>1. MayRun(c)
  BY DEF TurnInv
<1>2. stage[c] \notin {"idle", "settled"}
  BY DEF Begun
<1>3. result[c] = "none"
  BY <1>2 DEF TypeOK
<1>4. (\A d \in Op \ {c} : pending[d] = 0) /\ (c \notin TxOp \cap Begun => ~tx)
  BY <1>1, OthersAreStill
<1>5. work[c] \in 0..MaxWork /\ kept[c] \in 0..MaxWork /\ pending[c] \in 0..MaxWork
  BY DEF TypeOK
<1>6. c \in TxOp /\ c \in Begun => tx /\ pending[c] = work[c] /\ kept[c] = 0
  BY DEF WorkInv
<1>7. c \notin Begun => pending[c] = 0 /\ kept[c] = work[c] /\ work[c] = 0
  BY DEF WorkInv
<1>8. c \notin TxOp => pending[c] = 0 /\ kept[c] = work[c]
  BY DEF WorkInv
<1> QED
  BY <1>1, <1>2, <1>3, <1>4, <1>5, <1>6, <1>7, <1>8

\* The numbers of statements, as a step leaves them.
LEMMA Counts ==
  ASSUME TypeOK
  PROVE  /\ work \in [Op -> 0..MaxWork] /\ pending \in [Op -> 0..MaxWork] /\ kept \in [Op -> 0..MaxWork]
         /\ [d \in Op |-> 0] \in [Op -> 0..MaxWork]
         /\ faults \in 0..MaxFaults /\ (Fault => faults' \in 0..MaxFaults)
<1>1. 0 \in 0..MaxWork
  BY StoreConnectionAssumption
<1>2. Fault => faults' \in 0..MaxFaults
  BY StoreConnectionAssumption DEF Fault, TypeOK
<1> QED
  BY <1>1, <1>2 DEF TypeOK

\* What COMMIT makes durable is what its operation has done.
LEMMA CommitKeeps ==
  ASSUME IInv, NEW c \in TxOp \cap Begun, kept' = [d \in Op |-> kept[d] + pending[d]]
  PROVE  /\ kept' \in [Op -> 0..MaxWork] /\ kept'[c] = work[c]
         /\ \A d \in Op \ {c} : kept'[d] = kept[d]
<1> USE CallersAreDistinct
<1>1. /\ \A d \in Op \ {c} : pending[d] = 0
      /\ pending[c] = work[c] /\ kept[c] = 0 /\ work[c] \in 0..MaxWork
  BY AtItsTurn
<1>2. kept \in [Op -> 0..MaxWork]
  BY Counts DEF IInv
<1>3. kept'[c] = work[c]
  BY <1>1
<1>4. \A d \in Op \ {c} : kept'[d] = kept[d]
  BY <1>1, <1>2
<1>5. \A d \in Op : kept'[d] \in 0..MaxWork
  BY <1>1, <1>2, <1>3, <1>4
<1> QED
  BY <1>3, <1>4, <1>5

LEMMA InvBegin ==
  ASSUME IInv, NEW c \in Caller, Begin(c)
  PROVE  IInv'
<1> USE CallersAreDistinct
<1>1. c \in Op /\ c \in TxOp /\ stage[c] = "waiting" /\ MayRun(c) /\ Up /\ c \notin Begun
  BY DEF Begin, Begun
<1>2. work[c] = 0 /\ pending[c] = work[c] /\ kept[c] = 0
  BY <1>1, AtItsTurn
<1> QED
  BY <1>1, <1>2, Counts, OpMovesOn DEF Begin, MoveTo, storeVars, IInv

LEMMA InvExecute ==
  ASSUME IInv, NEW c \in Caller, Execute(c)
  PROVE  IInv'
<1> USE CallersAreDistinct
<1>1. /\ c \in Op /\ Up /\ work[c] < MaxWork /\ stage' = [stage EXCEPT ![c] = "working"]
      /\ (c \in Op \ TxOp /\ stage[c] = "waiting" /\ MayRun(c)) \/ stage[c] = "working"
      /\ UNCHANGED <<closing, closed, chain, result, lost, ended, tx, faults>>
  BY DEF Execute, AtWork, MoveTo, storeVars
<1>2. c \in Begun \/ (c \notin TxOp /\ stage[c] = "waiting" /\ MayRun(c))
  BY <1>1 DEF Begun
<1>3. /\ MayRun(c) /\ stage[c] \notin {"idle", "settled"} /\ work[c] \in 0..MaxWork
      /\ c \in TxOp => tx /\ pending[c] = work[c] /\ kept[c] = 0
      /\ c \notin TxOp => ~tx /\ pending[c] = 0 /\ kept[c] = work[c]
  BY <1>1, <1>2, AtItsTurn
<1>4. work[c] + 1 \in 0..MaxWork
  BY <1>1, <1>3, StoreConnectionAssumption
<1>5. /\ work \in [Op -> 0..MaxWork] /\ pending \in [Op -> 0..MaxWork] /\ kept \in [Op -> 0..MaxWork]
      /\ faults \in 0..MaxFaults /\ tx \in BOOLEAN
  BY Counts DEF IInv, TypeOK
<1>6. /\ work' = [work EXCEPT ![c] = work[c] + 1]
      /\ tx => pending' = [pending EXCEPT ![c] = pending[c] + 1] /\ kept' = kept
      /\ ~tx => kept' = [kept EXCEPT ![c] = kept[c] + 1] /\ pending' = pending
  BY DEF Execute
<1>7. /\ work' \in [Op -> 0..MaxWork] /\ work'[c] = work[c] + 1
      /\ \A d \in Op \ {c} : work'[d] = work[d]
  BY <1>1, <1>4, <1>5, <1>6
<1>8. CASE c \in TxOp
  <2>1. pending' = [pending EXCEPT ![c] = work[c] + 1] /\ kept' = kept
    BY <1>8, <1>3, <1>6
  <2>2. /\ pending' \in [Op -> 0..MaxWork] /\ pending'[c] = work'[c]
        /\ \A d \in Op \ {c} : pending'[d] = pending[d]
    BY <2>1, <1>1, <1>4, <1>5, <1>7
  <2> QED
    BY <2>1, <2>2, <1>8, <1>1, <1>3, <1>5, <1>7, OpMovesOn
<1>9. CASE c \notin TxOp
  <2>1. kept' = [kept EXCEPT ![c] = work[c] + 1] /\ pending' = pending
    BY <1>9, <1>3, <1>6
  <2>2. /\ kept' \in [Op -> 0..MaxWork] /\ kept'[c] = work'[c]
        /\ \A d \in Op \ {c} : kept'[d] = kept[d]
    BY <2>1, <1>1, <1>4, <1>5, <1>7
  <2> QED
    BY <2>1, <2>2, <1>9, <1>1, <1>3, <1>5, <1>7, OpMovesOn
<1> QED
  BY <1>8, <1>9

LEMMA InvReturn ==
  ASSUME IInv, NEW c \in Caller, Return(c)
  PROVE  IInv'
<1> USE CallersAreDistinct
<1>1. /\ c \in Op /\ c \notin TxOp /\ c \in Begun /\ Settle(c, "ok")
      /\ UNCHANGED <<closing, closed, lost, ended, tx, work, pending, kept, faults>>
  BY DEF Return, Begun, storeVars, dbVars
<1>2. /\ MayRun(c) /\ stage[c] # "idle" /\ ~tx /\ pending[c] = 0 /\ kept[c] = work[c]
      /\ \A d \in Op \ {c} : pending[d] = 0
  BY <1>1, AtItsTurn
<1>3. lost \in BOOLEAN /\ tx' = FALSE /\ \A d \in Op : pending'[d] = 0
  BY <1>1, <1>2 DEF IInv, TypeOK
<1> QED
  BY <1>1, <1>2, <1>3, Counts, OpSettles DEF IInv

LEMMA InvComplete ==
  ASSUME IInv, NEW c \in Caller, Complete(c)
  PROVE  IInv'
<1> USE CallersAreDistinct
<1>1. /\ c \in Op /\ c \in TxOp /\ c \in Begun /\ stage' = [stage EXCEPT ![c] = "committing"]
      /\ UNCHANGED <<closing, closed, chain, result, lost, ended, tx, work, pending, kept, faults>>
  BY DEF Complete, MoveTo, Begun, storeVars, dbVars
<1>2. /\ MayRun(c) /\ stage[c] \notin {"idle", "settled"}
      /\ tx /\ pending[c] = work[c] /\ kept[c] = 0
  BY <1>1, AtItsTurn
<1>3. Up /\ tx \in BOOLEAN
  BY <1>1 DEF IInv, LinkInv, TypeOK
<1> QED
  BY <1>1, <1>2, <1>3, Counts, OpMovesOn DEF IInv

LEMMA InvCommit ==
  ASSUME IInv, NEW c \in Caller, Commit(c)
  PROVE  IInv'
<1> USE CallersAreDistinct
<1>1. /\ stage[c] = "committing" /\ Settle(c, "ok") /\ tx' = FALSE
      /\ kept' = [d \in Op |-> kept[d] + pending[d]] /\ pending' = [d \in Op |-> 0]
      /\ UNCHANGED <<closing, closed, lost, ended, work, faults>>
  BY DEF Commit, storeVars
<1>2. c \in Op /\ c \in TxOp /\ c \in Begun
  BY <1>1 DEF IInv, QueueInv, WorkInv, Begun
<1>3. MayRun(c) /\ stage[c] # "idle" /\ lost \in BOOLEAN
  BY <1>2, AtItsTurn DEF IInv, TypeOK
<1>4. /\ kept' \in [Op -> 0..MaxWork] /\ kept'[c] = work'[c]
      /\ \A d \in Op \ {c} : kept'[d] = kept[d]
  BY <1>1, <1>2, CommitKeeps
<1>5. pending' \in [Op -> 0..MaxWork] /\ \A d \in Op : pending'[d] = 0
  BY <1>1, Counts DEF IInv
<1> QED
  BY <1>1, <1>2, <1>3, <1>4, <1>5, Counts, OpSettles DEF IInv

LEMMA InvRollback ==
  ASSUME IInv, NEW c \in Caller, Rollback(c)
  PROVE  IInv'
<1> USE CallersAreDistinct
<1>1. /\ stage[c] = "rollingBack" /\ Settle(c, "failed") /\ tx' = FALSE
      /\ pending' = [d \in Op |-> 0]
      /\ UNCHANGED <<closing, closed, lost, ended, work, kept, faults>>
  BY DEF Rollback, storeVars
<1>2. c \in Op /\ c \in TxOp /\ c \in Begun
  BY <1>1 DEF IInv, QueueInv, WorkInv, Begun
<1>3. MayRun(c) /\ stage[c] # "idle" /\ kept[c] = 0 /\ lost \in BOOLEAN
  BY <1>2, AtItsTurn DEF IInv, TypeOK
<1>4. pending' \in [Op -> 0..MaxWork] /\ \A d \in Op : pending'[d] = 0
  BY <1>1, Counts DEF IInv
<1> QED
  BY <1>1, <1>2, <1>3, <1>4, Counts, OpSettles DEF IInv

LEMMA InvRefuse ==
  ASSUME IInv, NEW c \in Caller, Refuse(c)
  PROVE  IInv'
<1> USE CallersAreDistinct
<1>1. /\ c \in Op /\ Up
      /\ UNCHANGED <<closing, closed, lost, ended, tx, work, pending, kept, faults>>
  BY DEF Refuse, storeVars, dbVars
<1>2. faults' \in 0..MaxFaults /\ lost \in BOOLEAN /\ tx \in BOOLEAN
  BY <1>1, Counts DEF IInv, TypeOK
<1>3. ASSUME Settle(c, "failed"),
             (stage[c] = "waiting" /\ MayRun(c)) \/ (c \notin TxOp /\ stage[c] = "working")
      PROVE  IInv'
  <2>1. c \in Begun \/ (stage[c] = "waiting" /\ MayRun(c))
    BY <1>1, <1>3 DEF Begun
  <2>2. c \notin TxOp \/ c \notin Begun
    BY <1>3 DEF Begun
  <2>3. /\ MayRun(c) /\ stage[c] # "idle" /\ ~tx /\ pending[c] = 0 /\ kept[c] = work[c]
        /\ c \notin Begun => work[c] = 0
        /\ \A d \in Op \ {c} : pending[d] = 0
    BY <1>1, <2>1, <2>2, AtItsTurn
  <2>4. tx' = FALSE /\ \A d \in Op : pending'[d] = 0
    BY <1>1, <1>2, <2>3
  <2>5. c \in TxOp => kept[c] = 0 /\ work[c] = 0
    BY <2>2, <2>3
  <2> QED
    BY <1>1, <1>2, <1>3, <2>3, <2>4, <2>5, Counts, OpSettles DEF IInv
<1>4. ASSUME c \in TxOp, stage[c] \in {"working", "committing"}, MoveTo(c, "rollingBack"),
             UNCHANGED <<chain, result>>
      PROVE  IInv'
  <2>1. c \in Begun /\ stage' = [stage EXCEPT ![c] = "rollingBack"]
    BY <1>1, <1>4 DEF Begun, MoveTo
  <2>2. /\ MayRun(c) /\ stage[c] \notin {"idle", "settled"}
        /\ tx /\ pending[c] = work[c] /\ kept[c] = 0
    BY <1>1, <1>4, <2>1, AtItsTurn
  <2> QED
    BY <1>1, <1>2, <1>4, <2>1, <2>2, Counts, OpMovesOn DEF IInv
<1> QED
  BY <1>3, <1>4 DEF Refuse

LEMMA InvQueryFails ==
  ASSUME IInv, NEW c \in Caller, QueryFails(c)
  PROVE  IInv'
<1> USE CallersAreDistinct
<1>1. /\ c \in Op /\ stage[c] = "waiting" /\ MayRun(c) /\ c \notin Begun /\ Settle(c, "failed")
      /\ UNCHANGED <<closing, closed, lost, ended, tx, work, pending, kept, faults>>
  BY DEF QueryFails, Begun, storeVars, dbVars
<1>2. /\ ~tx /\ pending[c] = 0 /\ kept[c] = work[c] /\ work[c] = 0
      /\ \A d \in Op \ {c} : pending[d] = 0
  BY <1>1, AtItsTurn
<1>3. tx' = FALSE /\ lost \in BOOLEAN /\ \A d \in Op : pending'[d] = 0
  BY <1>1, <1>2 DEF IInv, TypeOK
<1> QED
  BY <1>1, <1>2, <1>3, Counts, OpSettles DEF IInv

LEMMA InvLose ==
  ASSUME IInv, NEW c \in Caller, Lose(c)
  PROVE  IInv'
<1> USE CallersAreDistinct
<1>1. /\ c \in Op /\ Fault /\ Settle(c, "failed")
      /\ lost' = TRUE /\ tx' = FALSE /\ pending' = [d \in Op |-> 0]
      /\ UNCHANGED <<closing, closed, ended>>
  BY DEF Lose, Break, storeVars
<1>2. c \in Begun \/ (stage[c] = "waiting" /\ MayRun(c))
  BY <1>1 DEF Lose, Begun
<1>3. /\ MayRun(c) /\ stage[c] # "idle" /\ work[c] \in 0..MaxWork
      /\ c \in TxOp /\ c \in Begun => tx /\ pending[c] = work[c] /\ kept[c] = 0
      /\ c \notin TxOp \/ c \notin Begun => ~tx /\ kept[c] = work[c]
      /\ c \notin Begun => work[c] = 0
  BY <1>1, <1>2, AtItsTurn
<1>4. /\ faults' \in 0..MaxFaults /\ pending' \in [Op -> 0..MaxWork]
      /\ \A d \in Op : pending'[d] = 0
  BY <1>1, Counts DEF IInv
<1>5. work \in [Op -> 0..MaxWork] /\ kept \in [Op -> 0..MaxWork]
  BY Counts DEF IInv
<1>6. ASSUME work' \in [Op -> 0..MaxWork], kept' \in [Op -> 0..MaxWork],
             \A d \in Op \ {c} : work'[d] = work[d] /\ kept'[d] = kept[d],
             c \notin TxOp => kept'[c] = work'[c],
             c \in TxOp => kept'[c] \in {0, work'[c]}
      PROVE  IInv'
  BY <1>1, <1>3, <1>4, <1>6, OpSettles
<1>7. CASE UNCHANGED <<work, kept>>
  <2>1. c \notin TxOp => kept'[c] = work'[c]
    BY <1>3, <1>7
  <2>2. c \in TxOp => kept'[c] \in {0, work'[c]}
    BY <1>3, <1>7
  <2> QED
    BY <1>5, <1>6, <1>7, <2>1, <2>2
<1>8. CASE /\ stage[c] = "committing"
           /\ kept' = [d \in Op |-> kept[d] + pending[d]]
           /\ UNCHANGED work
  <2>1. c \in TxOp \cap Begun
    BY <1>1, <1>8 DEF Begun, IInv, WorkInv
  <2>2. /\ kept' \in [Op -> 0..MaxWork] /\ kept'[c] = work[c]
        /\ \A d \in Op \ {c} : kept'[d] = kept[d]
    BY <2>1, <1>8, CommitKeeps
  <2> QED
    BY <1>5, <1>6, <1>8, <2>1, <2>2
<1>9. CASE /\ AtWork(c) /\ ~tx /\ work[c] < MaxWork
           /\ kept' = [kept EXCEPT ![c] = @ + 1]
           /\ work' = [work EXCEPT ![c] = @ + 1]
  <2>1. c \notin TxOp
    BY <1>1, <1>3, <1>9 DEF AtWork, Begun
  <2>2. work[c] + 1 \in 0..MaxWork /\ kept[c] = work[c]
    BY <1>3, <1>9, <2>1, StoreConnectionAssumption
  <2>3. kept' = [kept EXCEPT ![c] = work[c] + 1] /\ work' = [work EXCEPT ![c] = work[c] + 1]
    BY <1>9, <2>2
  <2> QED
    BY <1>1, <1>5, <1>6, <2>1, <2>2, <2>3
<1> QED
  BY <1>7, <1>8, <1>9 DEF Lose

LEMMA CallerQueues ==
  ASSUME IInv, NEW c \in Caller, stage[c] = "idle",
         chain' = Append(chain, c), stage' = [stage EXCEPT ![c] = "waiting"],
         c \in Op => ~closing, closing' = (closing \/ c \in Closer),
         UNCHANGED <<closed, result, lost, ended, tx, work, pending, kept, faults>>
  PROVE  IInv'
<1> USE CallersAreDistinct DEF IInv
<1>1. /\ QueueInv' /\ chain' \in Seq(Caller)
      /\ \A d \in Caller : MayRun(d) => MayRun(d)'
  BY JoinQueue
<1>2. /\ stage' \in [Caller -> Stage] /\ stage'[c] = "waiting"
      /\ \A d \in Caller \ {c} : stage'[d] = stage[d]
  BY DEF TypeOK, Stage
<1>3. Begun' = Begun
  BY <1>2 DEF Begun
<1>4. TypeOK'
  BY <1>1, <1>2 DEF TypeOK
<1>5. WorkInv'
  BY <1>2, <1>3 DEF WorkInv
<1>6. TurnInv' /\ LinkInv' /\ TransactionsAreClosed'
  BY <1>1, <1>3 DEF TurnInv, LinkInv, Up, TransactionsAreClosed, Begun
<1>7. ToldWhatHappened'
  BY <1>2 DEF ToldWhatHappened
<1>8. NothingAfterEnd'
  <2> SUFFICES ASSUME closed, NEW i \in DOMAIN chain' PROVE chain'[i] \in Closer
    BY DEF NothingAfterEnd, Chained
  <2>1. c \in Closer
    BY DEF TypeOK
  <2>2. Len(chain) \in Nat /\ i \in 1..(Len(chain) + 1) /\ DOMAIN chain = 1..Len(chain)
    BY ChainDomain DEF TypeOK, Positions
  <2>3. CASE i \in DOMAIN chain
    BY <2>2, <2>3 DEF NothingAfterEnd, Chained, TypeOK
  <2>4. CASE i = Len(chain) + 1
    BY <2>1, <2>4 DEF TypeOK
  <2> QED
    BY <2>2, <2>3, <2>4
<1> QED
  BY <1>1, <1>4, <1>5, <1>6, <1>7, <1>8

LEMMA InvCall ==
  ASSUME IInv, NEW c \in Caller, Call(c) \/ CallClose(c)
  PROVE  IInv'
<1> USE CallersAreDistinct
<1>1. closing \in BOOLEAN
  BY DEF IInv, TypeOK
<1>2. CASE Call(c)
  <2>1. closing' = (closing \/ c \in Closer)
    BY <1>1, <1>2 DEF Call, storeVars
  <2> QED
    BY <1>2, <2>1, CallerQueues DEF Call, MoveTo, storeVars, dbVars
<1>3. CASE CallClose(c)
  <2>1. closing' = (closing \/ c \in Closer)
    BY <1>1, <1>3 DEF CallClose
  <2> QED
    BY <1>3, <2>1, CallerQueues DEF CallClose, MoveTo, dbVars
<1> QED
  BY <1>2, <1>3

LEMMA InvCallRefused ==
  ASSUME IInv, NEW c \in Caller, CallRefused(c)
  PROVE  IInv'
<1> USE CallersAreDistinct DEF IInv
<1>1. /\ c \in Op /\ stage[c] = "idle" /\ stage' = [stage EXCEPT ![c] = "settled"]
      /\ result' = [result EXCEPT ![c] = "refused"]
      /\ UNCHANGED <<closing, closed, chain, lost, ended, tx, work, pending, kept, faults>>
  BY DEF CallRefused, MoveTo, storeVars, dbVars
<1>2. /\ stage' \in [Caller -> Stage] /\ stage'[c] = "settled"
      /\ \A d \in Caller \ {c} : stage'[d] = stage[d]
      /\ result' \in [Caller -> Result] /\ result'[c] = "refused"
      /\ \A d \in Caller \ {c} : result'[d] = result[d]
  BY <1>1 DEF TypeOK, Stage, Result
<1>3. Begun' = Begun
  BY <1>1, <1>2 DEF Begun
<1>4. TypeOK'
  BY <1>1, <1>2 DEF TypeOK
<1>5. QueueInv'
  BY <1>1, <1>2 DEF QueueInv, Positions
<1>6. WorkInv'
  BY <1>1, <1>2, <1>3 DEF WorkInv
<1>7. TurnInv' /\ LinkInv' /\ TransactionsAreClosed' /\ NothingAfterEnd'
  BY <1>1, <1>3 DEF TurnInv, MayRun, LinkInv, Up, TransactionsAreClosed, NothingAfterEnd, Chained
<1>8. work[c] = 0 /\ kept[c] = 0
  BY <1>1 DEF WorkInv
<1>9. ToldWhatHappened'
  BY <1>1, <1>2, <1>8 DEF ToldWhatHappened
<1> QED
  BY <1>4, <1>5, <1>6, <1>7, <1>9

LEMMA InvLoseIdle ==
  ASSUME IInv, LoseIdle
  PROVE  IInv'
<1> USE CallersAreDistinct DEF IInv
<1>1. /\ Begun = {} /\ Fault /\ lost' = TRUE /\ tx' = FALSE /\ pending' = [d \in Op |-> 0]
      /\ UNCHANGED <<closing, closed, chain, stage, result, ended, work, kept>>
  BY DEF LoseIdle, Break, storeVars
<1>2. faults' \in 0..MaxFaults /\ pending' \in [Op -> 0..MaxWork] /\ Begun' = {}
  BY <1>1, Counts DEF Begun
<1>3. TypeOK'
  BY <1>1, <1>2 DEF TypeOK
<1>4. QueueInv'
  BY <1>1 DEF QueueInv, Positions
<1>5. WorkInv'
  BY <1>1, <1>2 DEF WorkInv
<1>6. TurnInv' /\ LinkInv' /\ TransactionsAreClosed' /\ NothingAfterEnd'
  BY <1>1, <1>2 DEF TurnInv, LinkInv, TransactionsAreClosed, NothingAfterEnd, Chained
<1>7. ToldWhatHappened'
  BY <1>1 DEF ToldWhatHappened
<1> QED
  BY <1>3, <1>4, <1>5, <1>6, <1>7

\* When a closer has its turn, operations are behind it.
LEMMA CloserSettles ==
  ASSUME IInv, NEW c \in Closer, NEW r \in {"ok", "failed"}, MayRun(c), stage[c] # "idle",
         Settle(c, r), closed' \in BOOLEAN, closed => closed', ended' \in BOOLEAN, ended' => closed',
         faults' \in 0..MaxFaults,
         UNCHANGED <<closing, lost, tx, work, pending, kept>>
  PROVE  IInv' /\ \A d \in Caller \ {c} : result'[d] = result[d]
<1> USE CallersAreDistinct DEF IInv
<1>1. /\ QueueInv' /\ chain' \in Seq(Caller) /\ Begun' = {} /\ Chained' \subseteq Chained
      /\ stage'[c] = "settled" /\ \A d \in Caller \ {c} : stage'[d] = stage[d]
  BY LeaveQueue
<1>2. /\ stage' \in [Caller -> Stage] /\ result' \in [Caller -> Result]
      /\ result'[c] = r /\ \A d \in Caller \ {c} : result'[d] = result[d]
  BY DEF TypeOK, Settle, MoveTo, Stage, Result
<1>3. TypeOK'
  BY <1>1, <1>2 DEF TypeOK, QueueInv
<1>4. Begun = {} /\ ~tx
  <2>1. \A d \in Op : d \notin Begun
    BY OthersAreStill
  <2> QED
    BY <2>1 DEF Begun, TransactionsAreClosed
<1>5. Chained \subseteq Closer
  <2> SUFFICES ASSUME NEW i \in DOMAIN chain PROVE chain[i] \in Closer
    BY DEF Chained
  <2>1. Len(chain) \in Nat \ {0} /\ c = chain[1] /\ i \in Positions
    BY ChainDomain, EmptySeq, HeadTailProperties DEF TypeOK, MayRun
  <2>2. 1 \in Positions /\ (i = 1 \/ 1 < i)
    BY <2>1 DEF Positions
  <2> QED
    BY <2>1, <2>2 DEF QueueInv
<1>6. WorkInv'
  BY <1>1, <1>4 DEF WorkInv
<1>7. LinkInv' /\ TurnInv' /\ TransactionsAreClosed' /\ NothingAfterEnd'
  BY <1>1, <1>4, <1>5 DEF LinkInv, TurnInv, TransactionsAreClosed, NothingAfterEnd
<1>8. ToldWhatHappened'
  BY <1>1, <1>2 DEF ToldWhatHappened
<1> QED
  BY <1>1, <1>2, <1>3, <1>6, <1>7, <1>8

LEMMA InvClosers ==
  ASSUME IInv, NEW c \in Caller, End(c) \/ EndFails(c) \/ EndedBefore(c)
  PROVE  IInv' /\ \A d \in Caller \ {c} : result'[d] = result[d]
<1>1. /\ c \in Closer /\ stage[c] = "waiting" /\ MayRun(c)
      /\ UNCHANGED <<closing, lost, tx, work, pending, kept>>
  BY DEF End, EndFails, EndedBefore, storeVars, dbVars
<1>2. faults' \in 0..MaxFaults
  BY Counts DEF IInv, End, EndFails, EndedBefore
<1>3. closed \in BOOLEAN /\ ended \in BOOLEAN /\ (ended => closed)
  BY DEF IInv, TypeOK, LinkInv
<1>4. CASE End(c)
  BY <1>1, <1>2, <1>4, CloserSettles DEF End
<1>5. CASE EndFails(c)
  <2>1. closed' = TRUE /\ ended' = ended /\ Settle(c, "failed")
    BY <1>5 DEF EndFails, dbVars
  <2> QED
    BY <1>1, <1>2, <1>3, <2>1, CloserSettles
<1>6. CASE EndedBefore(c)
  <2>1. closed' = closed /\ ended' = ended /\ Settle(c, "ok")
    BY <1>6 DEF EndedBefore, storeVars, dbVars
  <2> QED
    BY <1>1, <1>2, <1>3, <2>1, CloserSettles
<1> QED
  BY <1>4, <1>5, <1>6

LEMMA InvStutter ==
  ASSUME IInv, UNCHANGED vars
  PROVE  IInv'
<1>1. Positions' = Positions /\ Chained' = Chained /\ Begun' = Begun
  BY DEF vars, Positions, Chained, Begun
<1>2. TypeOK' /\ QueueInv' /\ WorkInv'
  BY <1>1 DEF vars, IInv, TypeOK, QueueInv, WorkInv
<1>3. LinkInv' /\ TurnInv' /\ TransactionsAreClosed' /\ ToldWhatHappened' /\ NothingAfterEnd'
  BY <1>1 DEF vars, IInv, LinkInv, Up, TurnInv, MayRun, TransactionsAreClosed, ToldWhatHappened, NothingAfterEnd
<1> QED
  BY <1>2, <1>3 DEF IInv

LEMMA InvNext == IInv /\ [Next]_vars => IInv'
<1> SUFFICES ASSUME IInv, [Next]_vars PROVE IInv'
  OBVIOUS
<1>1. ASSUME NEW c \in Caller, Call(c) \/ CallRefused(c) \/ CallClose(c)
      PROVE  IInv'
  BY <1>1, InvCall, InvCallRefused
<1>2. ASSUME NEW c \in Caller, Answered(c)
      PROVE  IInv'
  BY <1>2, InvBegin, InvExecute, InvReturn, InvComplete, InvCommit, InvRollback, InvQueryFails,
     InvClosers DEF Answered
<1>3. ASSUME NEW c \in Caller, Refuse(c) \/ Lose(c) \/ EndFails(c)
      PROVE  IInv'
  BY <1>3, InvRefuse, InvLose, InvClosers
<1>4. CASE LoseIdle
  BY <1>4, InvLoseIdle
<1>5. CASE Terminated \/ UNCHANGED vars
  BY <1>5, InvStutter DEF Terminated
<1> QED
  BY <1>1, <1>2, <1>3, <1>4, <1>5 DEF Next

LEMMA Invariance == Spec => []IInv
BY InvInit, InvNext, PTL DEF Spec
-----------------------------------------------------------------------------
(* What closers report. *)

CloseInv ==
  /\ closed => ended \/ \E d \in Closer : result[d] = "failed"
  /\ \A d \in Closer : result[d] = "ok" => closed

LEMMA CloseKept ==
  ASSUME CloseInv, UNCHANGED <<closed, ended>>, \A d \in Closer : result'[d] = result[d]
  PROVE  CloseInv'
BY DEF CloseInv

\* An operation reports for itself.
LEMMA OpReports ==
  ASSUME TypeOK, CloseInv, NEW c \in Op, NEW r, result' = [result EXCEPT ![c] = r],
         UNCHANGED <<closed, ended>>
  PROVE  CloseInv'
BY CallersAreDistinct, CloseKept DEF TypeOK

LEMMA CloseNext == IInv /\ CloseInv /\ [Next]_vars => CloseInv'
<1> SUFFICES ASSUME IInv, CloseInv, [Next]_vars PROVE CloseInv'
  OBVIOUS
<1> USE CallersAreDistinct
<1>1. ASSUME NEW c \in Caller, Call(c) \/ CallClose(c) \/ Begin(c) \/ Execute(c) \/ Complete(c)
      PROVE  CloseInv'
  BY <1>1, CloseKept DEF Call, CallClose, Begin, Execute, Complete, storeVars, dbVars
<1>2. ASSUME NEW c \in Caller,
             CallRefused(c) \/ Return(c) \/ Commit(c) \/ Rollback(c) \/ QueryFails(c) \/ Lose(c)
      PROVE  CloseInv'
  <2>1. c \in Op
    BY <1>2 DEF CallRefused, Return, Commit, Rollback, QueryFails, Lose, IInv, QueueInv
  <2>2. UNCHANGED <<closed, ended>> /\ \E r : result' = [result EXCEPT ![c] = r]
    BY <1>2 DEF CallRefused, Return, Commit, Rollback, QueryFails, Lose, Settle, storeVars, dbVars
  <2> QED
    BY <2>1, <2>2, OpReports DEF IInv
<1>3. ASSUME NEW c \in Caller, Refuse(c)
      PROVE  CloseInv'
  <2>1. c \in Op /\ UNCHANGED <<closed, ended>>
    BY <1>3 DEF Refuse, storeVars, dbVars
  <2>2. CASE UNCHANGED result
    BY <2>1, <2>2, CloseKept
  <2>3. CASE Settle(c, "failed")
    BY <2>1, <2>3, OpReports DEF Settle, IInv
  <2> QED
    BY <1>3, <2>2, <2>3 DEF Refuse
<1>4. ASSUME NEW c \in Caller, End(c) \/ EndFails(c) \/ EndedBefore(c)
      PROVE  CloseInv'
  <2>1. c \in Closer /\ stage[c] = "waiting" /\ \A d \in Caller \ {c} : result'[d] = result[d]
    BY <1>4, InvClosers DEF End, EndFails, EndedBefore
  <2>2. result[c] = "none"
    BY <2>1 DEF IInv, TypeOK
  <2>3. CASE End(c)
    BY <2>3 DEF CloseInv, End
  <2>4. CASE EndFails(c)
    <3>1. closed' = TRUE /\ result'[c] = "failed"
      BY <2>1, <2>4 DEF EndFails, Settle, IInv, TypeOK
    <3> QED
      BY <2>1, <3>1 DEF CloseInv
  <2>5. CASE EndedBefore(c)
    <3>1. closed /\ closed' = closed /\ ended' = ended
      BY <2>5 DEF EndedBefore, storeVars, dbVars
    <3> QED
      BY <2>1, <2>2, <3>1 DEF CloseInv
  <2> QED
    BY <1>4, <2>3, <2>4, <2>5
<1>5. CASE LoseIdle \/ Terminated \/ UNCHANGED vars
  BY <1>5, CloseKept DEF LoseIdle, Terminated, vars, storeVars
<1> QED
  BY <1>1, <1>2, <1>3, <1>4, <1>5 DEF Next, Answered
-----------------------------------------------------------------------------
\* The variables keep their types, and a caller leaves the chain as it settles.
THEOREM TypeCorrect == Spec => []TypeOK
BY Invariance, PTL DEF IInv

\* #withLock serialises: the statements of two operations of one store never
\* interleave on its connection, however many are called and whichever fail.
THEOREM Serialisation == Spec => []OneAtATime
<1>1. IInv => OneAtATime
  BY DEF IInv, TurnInv, MayRun, OneAtATime
<1> QED
  BY <1>1, Invariance, PTL

\* No operation leaves its transaction open to the next.
THEOREM NoTransactionIsLeft == Spec => []TransactionsAreClosed
BY Invariance, PTL DEF IInv

\* A caller learns what the database did with its statements.
THEOREM AnswersAreTrue == Spec => []ToldWhatHappened
BY Invariance, PTL DEF IInv

\* close() comes after everything that was accepted before it.
THEOREM CloseDrains == Spec => []NothingAfterEnd
BY Invariance, PTL DEF IInv

\* A close() that succeeds has ended the client, or another has failed to.
THEOREM CloseIsTrue == Spec => []CloseMeansEnded
<1>1. Init => CloseInv
  BY CallersAreDistinct DEF Init, CloseInv
<1>2. CloseInv => CloseMeansEnded
  BY DEF CloseInv, CloseMeansEnded
<1> QED
  BY <1>1, <1>2, CloseNext, Invariance, PTL DEF Spec

\* Operations take turns, and leave nothing open behind them.
THEOREM Turns == Spec => []TurnsAreTaken
BY Serialisation, NoTransactionIsLeft, PTL DEF TurnsAreTaken

\* close() comes last, and has then done what it says.
THEOREM CloseIsLast == Spec => []CloseIsTheEnd
BY CloseDrains, CloseIsTrue, PTL DEF CloseIsTheEnd

-----------------------------------------------------------------------------
(* The serial store: its queue is the chain, the effect of an operation what *)
(* is kept of it.  Every step of the connection is a call, a refusal, a      *)
(* close, a part of the turn of the head of the chain, or does not show.     *)

LEMMA StandsOutside ==
  ASSUME IInv, NEW c \in Caller, stage[c] = "idle"
  PROVE  Serial!Outside(c)
<1>1. result[c] = "none"
  BY DEF IInv, TypeOK
<1>2. \A i \in Positions : chain[i] # c
  BY DEF IInv, QueueInv
<1>3. DOMAIN chain = Positions
  BY ChainDomain DEF IInv
<1> QED
  BY <1>1, <1>2, <1>3 DEF Serial!Outside

\* A statement outside of a transaction.
LEMMA StatementShows ==
  ASSUME IInv, NEW c \in Op \ TxOp, work[c] < MaxWork, kept' = [kept EXCEPT ![c] = @ + 1]
  PROVE  Serial!TakesEffect(c)
<1>1. kept[c] = work[c] /\ work[c] \in 0..MaxWork
  BY DEF IInv, WorkInv, TypeOK
<1>2. kept[c] + 1 \in 1..MaxWork
  BY <1>1, StoreConnectionAssumption
<1> QED
  BY <1>2 DEF Serial!TakesEffect

\* A COMMIT.
LEMMA CommitShows ==
  ASSUME IInv, NEW c \in TxOp \cap Begun, kept' = [d \in Op |-> kept[d] + pending[d]]
  PROVE  Serial!TakesEffect(c) \/ UNCHANGED kept
<1> USE CallersAreDistinct
<1>1. work[c] \in 0..MaxWork /\ kept[c] = 0
  BY AtItsTurn
<1>2. kept' \in [Op -> 0..MaxWork] /\ kept'[c] = work[c] /\ \A d \in Op \ {c} : kept'[d] = kept[d]
  BY CommitKeeps
<1>3. kept \in [Op -> 0..MaxWork]
  BY Counts DEF IInv
<1>4. kept' = [kept EXCEPT ![c] = work[c]]
  BY <1>2, <1>3
<1>5. CASE work[c] = 0
  BY <1>1, <1>3, <1>4, <1>5
<1>6. CASE work[c] # 0
  <2>1. work[c] \in 1..MaxWork
    BY <1>1, <1>6, StoreConnectionAssumption
  <2> QED
    BY <1>1, <1>4, <2>1 DEF Serial!TakesEffect
<1> QED
  BY <1>5, <1>6

\* A part of the turn of `c`.
LEMMA TurnIsTaken ==
  ASSUME NEW c \in Caller, MayRun(c), closing' = closing,
         Serial!TakesEffect(c) \/ UNCHANGED kept,
         Settle(c, "ok") \/ Settle(c, "failed") \/ UNCHANGED <<chain, result>>
  PROVE  Serial!Next
<1>1. Serial!HasTurn(c)
  BY DEF MayRun, Serial!HasTurn
<1>2. Serial!Answer(c, "ok") \/ Serial!Answer(c, "failed") \/ UNCHANGED <<chain, result>>
  BY DEF Settle, Serial!Answer
<1>3. Serial!Turn(c)
  BY <1>1, <1>2 DEF Serial!Turn
<1> QED
  BY <1>3 DEF Serial!Next, Caller

LEMMA ChainShows ==
  ASSUME IInv, NEW c \in Caller, Call(c) \/ CallRefused(c) \/ CallClose(c)
  PROVE  Serial!Next
<1>1. closed => closing
  BY DEF IInv, TypeOK
<1>2. Serial!Outside(c)
  BY StandsOutside DEF Call, CallRefused, CallClose
<1>3. CASE Call(c)
  <2>1. Serial!Call(c) /\ c \in Op
    BY <1>2, <1>3 DEF Call, Serial!Call, storeVars, dbVars
  <2> QED
    BY <2>1 DEF Serial!Next
<1>4. CASE CallRefused(c)
  <2>1. Serial!Refuse(c) /\ c \in Op
    BY <1>1, <1>2, <1>4 DEF CallRefused, Serial!Refuse, storeVars, dbVars
  <2> QED
    BY <2>1 DEF Serial!Next
<1>5. CASE CallClose(c)
  <2>1. Serial!Close(c) /\ c \in Closer
    BY <1>2, <1>5 DEF CallClose, Serial!Close, dbVars
  <2> QED
    BY <2>1 DEF Serial!Next
<1> QED
  BY <1>3, <1>4, <1>5

\* A query that is executed as its connection or its process goes.
LEMMA LastQueryShows ==
  ASSUME IInv, NEW c \in Op, c \in Begun \/ (stage[c] = "waiting" /\ MayRun(c)),
         \/ kept' = kept
         \/ stage[c] = "committing" /\ kept' = [d \in Op |-> kept[d] + pending[d]]
         \/ AtWork(c) /\ ~tx /\ work[c] < MaxWork /\ kept' = [kept EXCEPT ![c] = @ + 1]
  PROVE  MayRun(c) /\ (Serial!TakesEffect(c) \/ UNCHANGED kept)
<1>1. MayRun(c)
  BY AtItsTurn
<1>2. CASE stage[c] = "committing" /\ kept' = [d \in Op |-> kept[d] + pending[d]]
  <2>1. c \in TxOp \cap Begun
    BY <1>2 DEF IInv, WorkInv, Begun
  <2> QED
    BY <1>1, <1>2, <2>1, CommitShows
<1>3. CASE AtWork(c) /\ ~tx /\ work[c] < MaxWork /\ kept' = [kept EXCEPT ![c] = @ + 1]
  <2>1. c \in Op \ TxOp
    BY <1>3 DEF IInv, WorkInv, Begun, AtWork
  <2> QED
    BY <1>1, <1>3, <2>1, StatementShows
<1> QED
  BY <1>1, <1>2, <1>3

LEMMA TurnShows ==
  ASSUME IInv, NEW c \in Caller,
         Answered(c) \/ Refuse(c) \/ Lose(c) \/ EndFails(c)
  PROVE  Serial!Next \/ UNCHANGED Serial!vars
<1> USE CallersAreDistinct
<1>1. TypeOK /\ \A d \in Op : d \in Begun => MayRun(d)
  BY DEF IInv, TurnInv
<1>2. CASE Begin(c) \/ Complete(c)
  BY <1>2 DEF Begin, Complete, storeVars, dbVars, Serial!vars
<1>3. CASE Execute(c)
  <2>1. CASE tx
    BY <1>3, <2>1 DEF Execute, storeVars, Serial!vars
  <2>2. CASE ~tx
    <3>1. /\ c \in Op /\ (c \in Begun \/ (stage[c] = "waiting" /\ MayRun(c)))
          /\ AtWork(c) /\ work[c] < MaxWork /\ kept' = [kept EXCEPT ![c] = @ + 1]
      BY <1>3, <2>2 DEF Execute, AtWork, Begun
    <3>2. MayRun(c) /\ (Serial!TakesEffect(c) \/ UNCHANGED kept)
      BY <2>2, <3>1, LastQueryShows
    <3> QED
      BY <1>3, <3>2, TurnIsTaken DEF Execute, storeVars
  <2> QED
    BY <2>1, <2>2
<1>4. CASE Return(c)
  <2>1. MayRun(c)
    BY <1>1, <1>4 DEF Return, Begun
  <2> QED
    BY <1>4, <2>1, TurnIsTaken DEF Return, storeVars, dbVars
<1>5. CASE Commit(c)
  <2>1. c \in Op /\ c \in Begun
    BY <1>5 DEF Commit, Begun, IInv, QueueInv
  <2>2. MayRun(c) /\ (Serial!TakesEffect(c) \/ UNCHANGED kept)
    BY <1>5, <2>1, LastQueryShows DEF Commit
  <2> QED
    BY <1>5, <2>2, TurnIsTaken DEF Commit, storeVars
<1>6. CASE Rollback(c)
  <2>1. c \in Op /\ c \in Begun
    BY <1>6 DEF Rollback, Begun, IInv, QueueInv
  <2> QED
    BY <1>1, <1>6, <2>1, TurnIsTaken DEF Rollback, storeVars
<1>7. CASE Refuse(c)
  <2>1. MayRun(c)
    BY <1>1, <1>7 DEF Refuse, Begun
  <2> QED
    BY <1>7, <2>1, TurnIsTaken DEF Refuse, storeVars, dbVars
<1>8. CASE Lose(c)
  <2>1. /\ c \in Op /\ (c \in Begun \/ (stage[c] = "waiting" /\ MayRun(c)))
        /\ \/ kept' = kept
           \/ stage[c] = "committing" /\ kept' = [d \in Op |-> kept[d] + pending[d]]
           \/ AtWork(c) /\ ~tx /\ work[c] < MaxWork /\ kept' = [kept EXCEPT ![c] = @ + 1]
    BY <1>8 DEF Lose, Begun
  <2>2. MayRun(c) /\ (Serial!TakesEffect(c) \/ UNCHANGED kept)
    BY <2>1, LastQueryShows
  <2> QED
    BY <1>8, <2>2, TurnIsTaken DEF Lose, storeVars
<1>9. CASE QueryFails(c) \/ End(c) \/ EndFails(c) \/ EndedBefore(c)
  BY <1>9, TurnIsTaken DEF QueryFails, End, EndFails, EndedBefore, storeVars, dbVars
<1> QED
  BY <1>2, <1>3, <1>4, <1>5, <1>6, <1>7, <1>8, <1>9 DEF Answered

LEMMA StoreShows ==
  ASSUME IInv, [Next]_vars
  PROVE  [Serial!Next]_Serial!vars
<1>1. CASE LoseIdle \/ Terminated \/ UNCHANGED vars
  BY <1>1 DEF LoseIdle, Terminated, vars, storeVars, Serial!vars
<1> QED
  BY <1>1, ChainShows, TurnShows DEF Next

LEMMA SerialInit == Init => Serial!Init
BY DEF Init, Serial!Init, Caller

\* The store implements the serial store: turns in the order of the calls, a
\* transaction in one step, nothing after the answer, and nobody let in after
\* close(); whatever is refused, lost or called in the same turn of the event
\* loop.
THEOREM Refinement == Spec => ImplementsSerialStore
<1>1. IInv /\ [Next]_vars => [Serial!Next]_Serial!vars
  BY StoreShows
<1> QED
  BY <1>1, SerialInit, Invariance, PTL DEF Spec, ImplementsSerialStore, Serial!Spec

-----------------------------------------------------------------------------
(* The process *)

\* What the store promises, which also holds of a store that the exit has cut off.
Sound ==
  /\ TypeOK
  /\ TurnsAreTaken
  /\ ToldWhatHappened
  /\ NothingAfterEnd
  /\ CloseInv
  /\ \A c \in TxOp : kept[c] \in {0, work[c]}

\* Who can be where in which phase.
PhaseInv ==
  /\ phase \in {"library", "starting", "failing"} => \A c \in Op : client[c] = "none"
  /\ phase \in {"starting", "serving", "draining"} => ~ closing /\ \A c \in Op : result[c] # "refused"
  /\ phase \in {"serving", "draining"} => \A c \in Op : client[c] # "dropped"
  /\ phase = "closing" => NoneOpen
  /\ phase \in {"library", "starting", "serving", "draining"} => ending = "none"
  /\ phase = "failing" => ending = "failed"
  /\ phase = "closing" => ending \in {"drained", "dropped"}

\* Clients are answered with what the store has told; a shutdown that kept its word has
\* let go of all.
EndInv ==
  /\ \A x \in Closer : stage[x] = "settled" => closed
  /\ \A c \in Op : client[c] = "answered" => stage[c] = "settled" /\ result[c] # "refused"
  /\ ending = "drained" => \A c \in Op : client[c] \in {"none", "answered"}
  /\ ending = "failed" => \A c \in Op : client[c] = "none"
  /\ phase = "exited" /\ ending \in {"drained", "failed"} => closed

ServeInv ==
  /\ ServeTypeOK
  /\ phase # "exited" => IInv
  /\ Sound
  /\ PhaseInv
  /\ EndInv

-----------------------------------------------------------------------------
(* The store *)

LEMMA LivingIsSound ==
  ASSUME IInv, CloseInv
  PROVE  Sound
<1>1. OneAtATime
  BY DEF IInv, TurnInv, MayRun, OneAtATime
<1>2. ASSUME NEW c \in TxOp PROVE kept[c] \in {0, work[c]}
  <2>1. c \in Op /\ stage[c] \in Stage
    BY StoreConnectionAssumption DEF IInv, TypeOK, Caller
  <2>2. CASE stage[c] \in {"idle", "waiting"}
    BY <2>1, <2>2 DEF IInv, WorkInv
  <2>3. CASE stage[c] \in {"working", "committing", "rollingBack"}
    BY <2>1, <2>3 DEF IInv, WorkInv, Begun
  <2>4. CASE stage[c] = "settled"
    BY <2>1, <2>4 DEF IInv, ToldWhatHappened
  <2> QED
    BY <2>1, <2>2, <2>3, <2>4 DEF Stage
<1> QED
  BY <1>1, <1>2 DEF IInv, Sound, TurnsAreTaken

\* Who has settled has settled for good, closers have closed the store, and only calls to
\* a store that is closing are refused.
LEMMA SettledStays ==
  ASSUME IInv, [Next]_vars
  PROVE  /\ \A c \in Caller : stage[c] = "settled" => stage'[c] = "settled" /\ result'[c] = result[c]
         /\ (\A x \in Closer : stage[x] = "settled" => closed)
              => \A x \in Closer : stage'[x] = "settled" => closed'
         /\ ~ closing => \A c \in Op : result'[c] = "refused" => result[c] = "refused"
<1> DEFINE Claim ==
      /\ \A c \in Caller : stage[c] = "settled" => stage'[c] = "settled" /\ result'[c] = result[c]
      /\ (\A x \in Closer : stage[x] = "settled" => closed)
           => \A x \in Closer : stage'[x] = "settled" => closed'
      /\ ~ closing => \A c \in Op : result'[c] = "refused" => result[c] = "refused"
<1> USE CallersAreDistinct
<1>1. /\ stage \in [Caller -> Stage] /\ result \in [Caller -> Result] /\ (closed => closing)
  BY DEF IInv, TypeOK
<1>2. ASSUME NEW c \in Op, NEW r \in {"ok", "failed"}, Settle(c, r), stage[c] # "settled", closed' = closed
      PROVE  Claim
  BY <1>1, <1>2 DEF Settle, MoveTo
<1>3. ASSUME NEW c \in Op, NEW s \in Stage, MoveTo(c, s), s # "settled", stage[c] # "settled",
             UNCHANGED <<result, closed>>
      PROVE  Claim
  BY <1>1, <1>3 DEF MoveTo
<1>4. ASSUME NEW c \in Caller, Call(c) PROVE Claim
  BY <1>3, <1>4 DEF Call, Stage, storeVars
<1>5. ASSUME NEW c \in Caller, CallRefused(c) PROVE Claim
  BY <1>1, <1>5 DEF CallRefused, MoveTo, storeVars
<1>6. ASSUME NEW c \in Caller, CallClose(c) PROVE Claim
  BY <1>1, <1>6 DEF CallClose, MoveTo
<1>7. ASSUME NEW c \in Caller, Begin(c) \/ Execute(c) \/ Complete(c) PROVE Claim
  BY <1>3, <1>7 DEF Begin, Execute, Complete, AtWork, Stage, storeVars, dbVars
<1>8. ASSUME NEW c \in Caller, Return(c) \/ QueryFails(c) PROVE Claim
  BY <1>2, <1>8 DEF Return, QueryFails, storeVars
<1>9. ASSUME NEW c \in Caller, Commit(c) \/ Rollback(c) PROVE Claim
  <2>1. c \in Op
    BY <1>9 DEF Commit, Rollback, IInv, QueueInv
  <2> QED
    BY <1>2, <1>9, <2>1 DEF Commit, Rollback, storeVars
<1>10. ASSUME NEW c \in Caller, Refuse(c) PROVE Claim
  <2>1. CASE Settle(c, "failed")
    BY <1>2, <1>10, <2>1 DEF Refuse, storeVars
  <2>2. CASE MoveTo(c, "rollingBack") /\ UNCHANGED result /\ stage[c] # "settled"
    BY <1>3, <1>10, <2>2 DEF Refuse, Stage, storeVars
  <2> QED
    BY <1>10, <2>1, <2>2 DEF Refuse
<1>11. ASSUME NEW c \in Caller, Lose(c) PROVE Claim
  BY <1>2, <1>11 DEF Lose, storeVars
<1>12. ASSUME NEW c \in Caller, End(c) \/ EndFails(c) \/ EndedBefore(c) PROVE Claim
  <2>1. closed'
    BY <1>12 DEF End, EndFails, EndedBefore, storeVars
  <2>2. c \in Closer /\ stage[c] = "waiting"
    BY <1>12 DEF End, EndFails, EndedBefore
  <2>3. \E r \in {"ok", "failed"} : Settle(c, r)
    BY <1>12 DEF End, EndFails, EndedBefore
  <2> QED
    BY <1>1, <2>1, <2>2, <2>3 DEF Settle, MoveTo
<1>13. CASE LoseIdle \/ Terminated \/ UNCHANGED vars
  BY <1>1, <1>13 DEF LoseIdle, Terminated, vars, storeVars
<1> QED
  BY <1>4, <1>5, <1>6, <1>7, <1>8, <1>9, <1>10, <1>11, <1>12, <1>13 DEF Next, Answered

\* The exit: the query under way is executed or not, and nothing that has settled changes.
LEMMA ExitIsSound ==
  ASSUME IInv, CloseInv, Exit
  PROVE  /\ Sound'
         /\ UNCHANGED <<storeVars, stage, result, client>> /\ phase' = "exited"
<1> USE CallersAreDistinct
<1>1. /\ phase' = "exited" /\ lost' = TRUE /\ tx' = FALSE /\ pending' = [c \in Op |-> 0]
      /\ UNCHANGED <<closing, closed, chain, stage, result, ended, faults, client>>
  BY DEF Exit, Break, storeVars
<1>2. Sound
  BY LivingIsSound
<1>3. TypeOK /\ \A c \in Op : work[c] \in 0..MaxWork /\ kept[c] \in 0..MaxWork /\ MaxWork \in Nat
  BY StoreConnectionAssumption DEF IInv, TypeOK
<1>4. ASSUME work' \in [Op -> 0..MaxWork], kept' \in [Op -> 0..MaxWork],
             \A c \in Op : stage[c] = "settled" => work'[c] = work[c] /\ kept'[c] = kept[c],
             \A c \in TxOp : kept'[c] \in {0, work'[c]}
      PROVE  Sound'
  <2>1. TypeOK'
    <3>1. pending' \in [Op -> 0..MaxWork]
      BY <1>1, Counts DEF IInv
    <3> QED
      BY <1>1, <1>3, <1>4, <3>1 DEF TypeOK
  <2>2. TurnsAreTaken'
    BY <1>1, <1>2 DEF Sound, TurnsAreTaken, OneAtATime, TransactionsAreClosed, Begun
  <2>3. ToldWhatHappened'
    BY <1>1, <1>2, <1>4 DEF Sound, ToldWhatHappened
  <2>4. NothingAfterEnd' /\ CloseInv'
    BY <1>1, <1>2 DEF Sound, NothingAfterEnd, Chained, CloseInv
  <2> QED
    BY <1>4, <2>1, <2>2, <2>3, <2>4 DEF Sound
<1>5. ASSUME UNCHANGED <<work, kept>>
      PROVE  Sound'
  BY <1>2, <1>3, <1>4, <1>5 DEF Sound, TypeOK
<1>6. ASSUME NEW c \in Op, stage[c] = "committing",
             kept' = [d \in Op |-> kept[d] + pending[d]], UNCHANGED work
      PROVE  Sound'
  <2>1. c \in TxOp \cap Begun
    BY <1>6 DEF Begun, IInv, WorkInv
  <2>2. kept' \in [Op -> 0..MaxWork] /\ kept'[c] = work[c] /\ \A d \in Op \ {c} : kept'[d] = kept[d]
    BY <1>6, <2>1, CommitKeeps
  <2> QED
    BY <1>2, <1>4, <1>6, <2>2 DEF Sound, TypeOK
<1>7. ASSUME NEW c \in Op, AtWork(c), ~ tx, work[c] < MaxWork,
             kept' = [kept EXCEPT ![c] = @ + 1], work' = [work EXCEPT ![c] = @ + 1]
      PROVE  Sound'
  <2>1. c \notin TxOp /\ stage[c] # "settled"
    BY <1>7 DEF AtWork, IInv, WorkInv, Begun
  <2>2. kept[c] = work[c]
    BY <2>1 DEF IInv, WorkInv
  <2>3. work[c] + 1 \in 0..MaxWork
    BY <1>3, <1>7
  <2>4. work' \in [Op -> 0..MaxWork] /\ kept' \in [Op -> 0..MaxWork]
    BY <1>3, <1>7, <2>2, <2>3 DEF TypeOK
  <2>5. \A d \in Op \ {c} : work'[d] = work[d] /\ kept'[d] = kept[d]
    BY <1>3, <1>7 DEF TypeOK
  <2> QED
    BY <1>2, <1>4, <2>1, <2>4, <2>5 DEF Sound
<1> QED
  BY <1>1, <1>5, <1>6, <1>7 DEF Exit, storeVars

-----------------------------------------------------------------------------
(* The process *)

LEMMA ServeInitHolds == ServeInit => ServeInv
<1> SUFFICES ASSUME ServeInit PROVE ServeInv
  OBVIOUS
<1> USE CallersAreDistinct
<1>1. IInv /\ TypeOK
  BY InvInit DEF ServeInit, IInv
<1>2. CloseInv
  BY DEF ServeInit, Init, CloseInv
<1>3. Sound
  BY <1>1, <1>2, LivingIsSound
<1>4. ServeTypeOK /\ PhaseInv /\ EndInv
  BY <1>1 DEF ServeInit, Init, ServeTypeOK, PhaseInv, EndInv, NoneOpen
<1> QED
  BY <1>1, <1>3, <1>4 DEF ServeInv

\* A step of the store in the living process.
LEMMA StoreKeeps ==
  ASSUME ServeInv, phase # "exited", [Next]_vars
  PROVE  /\ IInv' /\ Sound' /\ TypeOK'
         /\ \A x \in Closer : stage'[x] = "settled" => closed'
         /\ \A c \in Op : client[c] = "answered" => stage'[c] = "settled" /\ result'[c] # "refused"
         /\ ~ closing => \A c \in Op : result'[c] = "refused" => result[c] = "refused"
<1>1. IInv /\ CloseInv
  BY DEF ServeInv, Sound
<1>2. IInv' /\ CloseInv'
  BY <1>1, InvNext, CloseNext
<1>3. IInv' => TypeOK'
  BY DEF IInv
<1>4. Sound'
  <2>1. IInv /\ CloseInv => Sound
    BY LivingIsSound
  <2> QED
    BY <1>2, <2>1, LivingIsSound, PTL
<1> QED
  BY <1>1, <1>2, <1>3, <1>4, SettledStays, CallersAreDistinct DEF ServeInv, EndInv

\* The process looks on.
LEMMA WatchKeeps ==
  ASSUME ServeInv, phase # "exited", [Next]_vars, UNCHANGED processVars,
         closing' = closing \/ phase = "library"
  PROVE  ServeInv'
<1>1. /\ IInv' /\ Sound' /\ TypeOK'
      /\ \A x \in Closer : stage'[x] = "settled" => closed'
      /\ \A c \in Op : client[c] = "answered" => stage'[c] = "settled" /\ result'[c] # "refused"
      /\ ~ closing => \A c \in Op : result'[c] = "refused" => result[c] = "refused"
  BY StoreKeeps
<1>2. phase' = phase /\ client' = client /\ ending' = ending
  BY DEF processVars
<1>3. ServeTypeOK' /\ EndInv'
  BY <1>1, <1>2 DEF ServeInv, ServeTypeOK, EndInv
<1>4. PhaseInv'
  BY <1>1, <1>2 DEF ServeInv, PhaseInv, NoneOpen
<1> QED
  BY <1>1, <1>2, <1>3, <1>4 DEF ServeInv

\* The process moves and the store does not.
LEMMA ProcessKeeps ==
  ASSUME ServeInv, phase # "exited", UNCHANGED vars,
         Bind \/ Signal \/ \E c \in Op : Arrive(c) \/ Respond(c)
  PROVE  ServeInv'
<1>1. [Next]_vars
  OBVIOUS
<1>2. /\ IInv' /\ Sound' /\ TypeOK'
      /\ \A x \in Closer : stage'[x] = "settled" => closed'
  BY <1>1, StoreKeeps
<1>3. UNCHANGED <<closing, closed, stage, result>>
  BY DEF vars
<1>4. client \in [Op -> {"none", "open", "answered", "dropped"}]
  BY DEF ServeInv, ServeTypeOK
<1>5. CASE Bind \/ Signal
  <2>1. ServeTypeOK' /\ EndInv'
    BY <1>2, <1>3, <1>5 DEF ServeInv, ServeTypeOK, EndInv, PhaseInv, Bind, Signal
  <2>2. PhaseInv'
    BY <1>3, <1>5 DEF ServeInv, PhaseInv, Bind, Signal, NoneOpen
  <2> QED
    BY <1>2, <1>5, <2>1, <2>2 DEF ServeInv
<1>6. ASSUME NEW c \in Op, Arrive(c) PROVE ServeInv'
  <2>1. phase = "serving" /\ phase' = phase /\ ending' = ending /\ client' = [client EXCEPT ![c] = "open"]
    BY <1>6 DEF Arrive
  <2>2. ServeTypeOK' /\ EndInv'
    BY <1>2, <1>3, <1>4, <2>1 DEF ServeInv, ServeTypeOK, EndInv, PhaseInv
  <2>3. PhaseInv'
    BY <1>3, <1>4, <2>1 DEF ServeInv, PhaseInv
  <2> QED
    BY <1>2, <2>2, <2>3 DEF ServeInv
<1>7. ASSUME NEW c \in Op, Respond(c) PROVE ServeInv'
  <2>1. /\ client[c] = "open" /\ stage[c] = "settled" /\ phase' = phase /\ ending' = ending
        /\ client' = [client EXCEPT ![c] = "answered"]
    BY <1>7 DEF Respond
  <2>2. phase \in {"serving", "draining"}
    BY <2>1 DEF ServeInv, PhaseInv, ServeTypeOK, NoneOpen
  <2>3. ServeTypeOK' /\ EndInv'
    BY <1>2, <1>3, <1>4, <2>1, <2>2 DEF ServeInv, ServeTypeOK, EndInv, PhaseInv
  <2>4. PhaseInv'
    BY <1>3, <1>4, <2>1, <2>2 DEF ServeInv, PhaseInv
  <2> QED
    BY <1>2, <2>3, <2>4 DEF ServeInv
<1> QED
  BY <1>5, <1>6, <1>7

\* The process calls close().
LEMMA CloseKeeps ==
  ASSUME ServeInv, StartFails \/ Drained \/ Deadline
  PROVE  ServeInv'
<1>1. phase # "exited" /\ CallClose(Shutdown)
  BY DEF StartFails, Drained, Deadline
<1>2. [Next]_vars
  BY <1>1, ServeProcessAssumption DEF Next, Caller
<1>3. /\ IInv' /\ Sound' /\ TypeOK'
      /\ \A x \in Closer : stage'[x] = "settled" => closed'
      /\ \A c \in Op : client[c] = "answered" => stage'[c] = "settled" /\ result'[c] # "refused"
  BY <1>1, <1>2, StoreKeeps
<1>4. client \in [Op -> {"none", "open", "answered", "dropped"}]
  BY DEF ServeInv, ServeTypeOK
<1>5. CASE StartFails
  <2>1. phase = "starting" /\ phase' = "failing" /\ ending' = "failed" /\ client' = client
    BY <1>5 DEF StartFails
  <2> QED
    BY <1>3, <1>4, <2>1 DEF ServeInv, ServeTypeOK, EndInv, PhaseInv
<1>6. CASE Drained \/ Deadline
  <2>1. /\ phase = "draining" /\ phase' = "closing"
        /\ client' = [c \in Op |-> IF client[c] = "open" THEN "dropped" ELSE client[c]]
        /\ ending' = IF NoneOpen THEN "drained" ELSE "dropped"
    BY <1>4, <1>6 DEF Drained, Deadline, NoneOpen
  <2>2. \A c \in Op : client[c] # "dropped"
    BY <2>1 DEF ServeInv, PhaseInv
  <2>3. ServeTypeOK'
    BY <1>3, <1>4, <2>1 DEF ServeTypeOK
  <2>4. PhaseInv'
    BY <2>1 DEF PhaseInv, NoneOpen
  <2>5. EndInv'
    BY <1>3, <1>4, <2>1, <2>2 DEF EndInv, NoneOpen
  <2> QED
    BY <1>3, <2>1, <2>3, <2>4, <2>5 DEF ServeInv
<1> QED
  BY <1>5, <1>6

LEMMA ExitKeeps ==
  ASSUME ServeInv, Leave \/ CloseTimesOut \/ SignalAgain
  PROVE  ServeInv'
<1>1. phase # "exited" /\ Exit /\ ending' \in {ending, "closeTimedOut", "signalled"}
  BY DEF Leave, CloseTimesOut, SignalAgain
<1>2. IInv /\ CloseInv
  BY <1>1 DEF ServeInv, Sound
<1>3. Sound' /\ UNCHANGED <<closing, closed, stage, result, client>> /\ phase' = "exited"
  BY <1>1, <1>2, ExitIsSound DEF storeVars
<1>4. ServeTypeOK'
  BY <1>1, <1>3 DEF ServeInv, ServeTypeOK, Sound
<1>5. PhaseInv'
  BY <1>3 DEF PhaseInv
<1>6. ending' \in {"drained", "failed"} => closed'
  <2>1. ending' \in {"drained", "failed"} => stage[Shutdown] = "settled" \/ phase = "draining"
    BY DEF Leave, CloseTimesOut, SignalAgain
  <2>2. ending' \in {"drained", "failed"} => Leave
    BY DEF Leave, CloseTimesOut, SignalAgain
  <2>3. Leave => stage[Shutdown] = "settled"
    BY DEF Leave
  <2> QED
    BY <1>3, <2>2, <2>3, ServeProcessAssumption DEF ServeInv, EndInv
<1>7. EndInv'
  BY <1>1, <1>3, <1>6 DEF ServeInv, EndInv
<1> QED
  BY <1>3, <1>4, <1>5, <1>7 DEF ServeInv

LEMMA ServeInductive ==
  ASSUME ServeInv, [ServeNext]_serveVars
  PROVE  ServeInv'
<1>1. ASSUME NEW c \in Op, phase # "exited", Handle(c) PROVE ServeInv'
  <2>1. [Next]_vars /\ UNCHANGED processVars /\ closing' = closing
    BY <1>1, CallersAreDistinct DEF Handle, Next, Call, CallRefused, storeVars
  <2> QED
    BY <1>1, <2>1, WatchKeeps
<1>2. CASE StoreWorks
  <2>1. [Next]_vars /\ UNCHANGED processVars
    BY <1>2 DEF StoreWorks, StoreStep, Next
  <2>2. closing' = closing
    BY <1>2 DEF StoreWorks, StoreStep, Answered, Begin, Execute, Return, Complete, Commit, Rollback, QueryFails,
                End, EndedBefore, Refuse, Lose, EndFails, LoseIdle, storeVars
  <2> QED
    BY <1>2, <2>1, <2>2, WatchKeeps DEF StoreWorks
<1>3. CASE Embedded
  BY <1>3, WatchKeeps DEF Embedded
<1>4. CASE UNCHANGED serveVars
  BY <1>4 DEF serveVars, vars, processVars, ServeInv, ServeTypeOK, Sound, PhaseInv, EndInv, IInv, CloseInv,
              TypeOK, QueueInv, WorkInv, LinkInv, TurnInv, TransactionsAreClosed, ToldWhatHappened,
              NothingAfterEnd, TurnsAreTaken, OneAtATime, Begun, Chained, Positions, MayRun, Up, NoneOpen
<1>5. ASSUME Bind \/ Signal \/ \E c \in Op : Arrive(c) \/ (phase # "exited" /\ Respond(c)) PROVE ServeInv'
  BY <1>5, ProcessKeeps DEF Bind, Signal, Arrive, Respond
<1> QED
  BY <1>1, <1>2, <1>3, <1>4, <1>5, CloseKeeps, ExitKeeps DEF ServeNext, Gone

LEMMA ServeInvariance == ServeSpec => []ServeInv
BY ServeInitHolds, ServeInductive, PTL DEF ServeSpec

-----------------------------------------------------------------------------
(* Theorems *)

\* In the process too, and after its exit, operations have taken turns and left nothing
\* open (postgres.ts, withLock).
THEOREM TurnsInProcess == ServeSpec => []TurnsAreTaken
<1>1. ServeInv => TurnsAreTaken
  BY DEF ServeInv, Sound
<1> QED
  BY <1>1, ServeInvariance, PTL

\* Callers are told what the database did, whatever ends the process.
THEOREM ToldInProcess == ServeSpec => []ToldWhatHappened
<1>1. ServeInv => ToldWhatHappened
  BY DEF ServeInv, Sound
<1> QED
  BY <1>1, ServeInvariance, PTL

\* The two together, as the run checks them.
THEOREM SoundInProcess == ServeSpec => []StoreIsSound
BY TurnsInProcess, ToldInProcess, PTL DEF StoreIsSound

\* The close of the shutdown comes last (postgres.ts, close).
THEOREM CloseInProcess == ServeSpec => []CloseIsTheEnd
<1>1. ServeInv => CloseIsTheEnd
  BY DEF ServeInv, Sound, CloseInv, CloseIsTheEnd, CloseMeansEnded
<1> QED
  BY <1>1, ServeInvariance, PTL

\* A shutdown that was neither given up nor hurried has answered every request and closed
\* the store, and no client is answered that the store was closed (serve-shutdown.ts).
THEOREM NobodyCutOff == ServeSpec => []NobodyIsCutOff
<1>1. ServeInv => NobodyIsCutOff
  BY DEF ServeInv, EndInv, NobodyIsCutOff, GracefulMeansAll, NoAnswerFromAClosedStore
<1> QED
  BY <1>1, ServeInvariance, PTL

\* What a client was told is durable, and transactions are kept whole or not at all, also
\* when the exit leaves queries under way.
THEOREM PromisesAreKept == ServeSpec => []ExitKeepsPromises
<1>1. ServeInv => ExitKeepsPromises
  BY CallersAreDistinct DEF ServeInv, EndInv, Sound, ToldWhatHappened, ExitKeepsPromises
<1> QED
  BY <1>1, ServeInvariance, PTL

-----------------------------------------------------------------------------
(* The serial store of the process. *)

LEMMA ExitShows ==
  ASSUME IInv, Exit
  PROVE  [Serial!Next]_Serial!vars
<1> USE CallersAreDistinct
<1>1. UNCHANGED <<closing, chain, result>>
  BY DEF Exit, storeVars
<1>2. CASE UNCHANGED kept
  BY <1>1, <1>2 DEF Serial!vars
<1>3. ASSUME NEW c \in Op,
             \/ stage[c] = "committing" /\ kept' = [d \in Op |-> kept[d] + pending[d]]
             \/ AtWork(c) /\ ~tx /\ work[c] < MaxWork /\ kept' = [kept EXCEPT ![c] = @ + 1]
      PROVE  Serial!Next
  <2>1. c \in Begun \/ (stage[c] = "waiting" /\ MayRun(c))
    BY <1>3 DEF AtWork, Begun
  <2>2. MayRun(c) /\ (Serial!TakesEffect(c) \/ UNCHANGED kept)
    BY <1>3, <2>1, LastQueryShows
  <2> QED
    BY <1>1, <2>2, TurnIsTaken
<1> QED
  BY <1>2, <1>3 DEF Exit

LEMMA ProcessShows ==
  ASSUME ServeInv, [ServeNext]_serveVars
  PROVE  [Serial!Next]_Serial!vars
<1>1. ASSUME phase # "exited", [Next]_vars PROVE [Serial!Next]_Serial!vars
  BY <1>1, StoreShows DEF ServeInv
<1>2. UNCHANGED vars => UNCHANGED Serial!vars
  BY DEF vars, Serial!vars
<1>3. CASE StartFails \/ Drained \/ Deadline
  <2>1. phase # "exited" /\ Next
    BY <1>3, ServeProcessAssumption DEF StartFails, Drained, Deadline, Next, Caller
  <2> QED
    BY <1>1, <2>1
<1>4. CASE Leave \/ CloseTimesOut \/ SignalAgain
  <2>1. phase # "exited" /\ Exit
    BY <1>4 DEF Leave, CloseTimesOut, SignalAgain
  <2> QED
    BY <2>1, ExitShows DEF ServeInv
<1>5. ASSUME NEW c \in Op, phase # "exited", Handle(c) PROVE [Serial!Next]_Serial!vars
  <2>1. Next
    BY <1>5, CallersAreDistinct DEF Handle, Next
  <2> QED
    BY <1>1, <1>5, <2>1
<1>6. CASE StoreWorks \/ Embedded
  <2>1. phase # "exited" /\ Next
    BY <1>6 DEF StoreWorks, Embedded, StoreStep, Next
  <2> QED
    BY <1>1, <2>1
<1>7. ASSUME Bind \/ Signal \/ Gone \/ (UNCHANGED serveVars) \/ \E c \in Op : Arrive(c) \/ Respond(c)
      PROVE  [Serial!Next]_Serial!vars
  BY <1>2, <1>7 DEF Bind, Signal, Gone, Arrive, Respond, serveVars
<1> QED
  BY <1>3, <1>4, <1>5, <1>6, <1>7 DEF ServeNext

\* The store of `wats serve` implements the serial store as well, its exit
\* included, which may leave the query under way executed: in the turn of the
\* operation that sent it.
THEOREM RefinementInProcess == ServeSpec => ImplementsSerialStore
<1>1. ServeInit => Serial!Init
  BY SerialInit DEF ServeInit
<1>2. ServeInv /\ [ServeNext]_serveVars => [Serial!Next]_Serial!vars
  BY ProcessShows
<1> QED
  BY <1>1, <1>2, ServeInvariance, PTL DEF ServeSpec, ImplementsSerialStore, Serial!Spec

-----------------------------------------------------------------------------
(* The end of a shutdown *)

\* Where the phases of a shutdown lead, and that a close that has settled stays so.
LEMMA PhasesAdvance ==
  ASSUME ServeInv, [ServeNext]_serveVars
  PROVE  /\ phase = "draining" => phase' \in {"draining", "closing", "exited"}
         /\ phase = "closing" => phase' \in {"closing", "exited"}
         /\ phase = "closing" /\ stage[Shutdown] = "settled" /\ phase' = "closing" =>
              stage'[Shutdown] = "settled"
<1> DEFINE Goal == /\ phase = "draining" => phase' \in {"draining", "closing", "exited"}
                   /\ phase = "closing" => phase' \in {"closing", "exited"}
                   /\ phase = "closing" /\ stage[Shutdown] = "settled" /\ phase' = "closing" =>
                        stage'[Shutdown] = "settled"
<1>1. ASSUME phase' = phase, [Next]_vars PROVE Goal
  <2>1. phase = "closing" => IInv
    BY DEF ServeInv
  <2>2. Shutdown \in Caller
    BY CallersAreDistinct, ServeProcessAssumption
  <2> QED
    BY <1>1, <2>1, <2>2, SettledStays
<1>2. ASSUME NEW c \in Op, Handle(c) PROVE Goal
  BY <1>1, <1>2, CallersAreDistinct DEF Handle, Next, processVars
<1>3. ASSUME StoreWorks \/ Embedded PROVE Goal
  BY <1>1, <1>3 DEF StoreWorks, StoreStep, Embedded, Next, processVars
<1>4. ASSUME NEW c \in Op, Arrive(c) \/ Respond(c) PROVE Goal
  BY <1>4 DEF Arrive, Respond, vars
<1>5. ASSUME Bind \/ StartFails \/ Signal PROVE Goal
  BY <1>5 DEF Bind, StartFails, Signal
<1>6. ASSUME Drained \/ Deadline PROVE Goal
  BY <1>6 DEF Drained, Deadline
<1>7. ASSUME Leave \/ CloseTimesOut \/ SignalAgain PROVE Goal
  BY <1>7 DEF Leave, CloseTimesOut, SignalAgain, Exit
<1>8. ASSUME UNCHANGED serveVars PROVE Goal
  BY <1>8 DEF serveVars, vars, processVars
<1> HIDE DEF Goal
<1>9. Goal
  BY <1>2, <1>3, <1>4, <1>5, <1>6, <1>7, <1>8 DEF ServeNext, Gone
<1> QED
  BY <1>9 DEF Goal

\* Once a shutdown has begun the process exits, whatever its requests, their queries and
\* the close of the store do (serve-shutdown.ts).
THEOREM ShutdownIsBounded == FairServeSpec => ShutdownEnds
<1> DEFINE Draining == phase = "draining"
           Closing == phase = "closing"
           Settled == stage[Shutdown] = "settled"
<1>1. FairServeSpec => DeadlineFires /\ LeaveFires /\ TimeoutFires
  BY PTL DEF FairServeSpec, ServeFairness
<1>2. ServeInv /\ [ServeNext]_serveVars =>
        /\ Draining => Draining' \/ Closing' \/ (phase = "exited")'
        /\ Closing => Closing' \/ (phase = "exited")'
        /\ Closing /\ Settled /\ Closing' => Settled'
  BY PhasesAdvance
<1>3. ServeInv /\ Draining => phase = "draining" /\ stage[Shutdown] = "idle"
  <2>1. ServeInv /\ Draining => IInv /\ ~closing
    BY DEF ServeInv, PhaseInv
  <2>2. ASSUME QueueInv, ~closing PROVE stage[Shutdown] = "idle"
    BY <2>2, ServeProcessAssumption DEF QueueInv
  <2> QED
    BY <2>1, <2>2 DEF IInv
<1>4. Closing /\ Settled => phase \in {"closing", "failing"} /\ stage[Shutdown] = "settled"
  OBVIOUS
<1>5. Closing /\ ~Settled => phase = "closing" /\ stage[Shutdown] # "settled"
  OBVIOUS
<1>6. Draining /\ <<Deadline>>_serveVars => Closing'
  BY DEF Deadline
<1>7. Closing /\ (<<Leave>>_serveVars \/ <<CloseTimesOut>>_serveVars) => (phase = "exited")'
  BY DEF Leave, CloseTimesOut, Exit
<1> QED
  BY <1>1, <1>2, <1>3, <1>4, <1>5, <1>6, <1>7, ServeInvariance, PTL
  DEF FairServeSpec, ServeSpec, ShutdownEnds, DeadlineFires, LeaveFires, TimeoutFires
=============================================================================
