------------------------------ MODULE SerialStore ------------------------------
(***************************************************************************)
(* What the mutex of the Postgres store promises, without a connection,    *)
(* transactions under way or promises: callers have their turns one after  *)
(* the other, in the order of their calls.  Only the one whose turn it is  *)
(* changes the database, a transaction in one step and once; after it has  *)
(* been answered it changes nothing more.  Once close() was called nobody  *)
(* else is let in.                                                         *)
(*                                                                         *)
(* This is the contract StoreConnection is shown to implement.             *)
(***************************************************************************)
EXTENDS Naturals, Sequences

CONSTANTS
  Operation,   \* the operations on the database
  Atomic,      \* those that are transactions
  Closer,      \* the calls of close()
  MaxWork      \* bound: statements of one operation

VARIABLES
  queue,       \* the callers that have not had their turn, in the order of their calls
  closing,     \* close() has been called
  effect,      \* for an operation, how many of its statements the database has
  answer       \* for a caller, what it was told

vars == <<queue, closing, effect, answer>>

Init ==
  /\ queue = <<>>
  /\ closing = FALSE
  /\ effect = [c \in Operation |-> 0]
  /\ answer = [c \in Operation \cup Closer |-> "none"]

Outside(c) == answer[c] = "none" /\ \A i \in DOMAIN queue : queue[i] # c

Call(c) ==
  /\ Outside(c) /\ ~closing
  /\ queue' = Append(queue, c)
  /\ UNCHANGED <<closing, effect, answer>>

Refuse(c) ==
  /\ Outside(c) /\ closing
  /\ answer' = [answer EXCEPT ![c] = "refused"]
  /\ UNCHANGED <<queue, closing, effect>>

Close(c) ==
  /\ Outside(c)
  /\ closing' = TRUE
  /\ queue' = Append(queue, c)
  /\ UNCHANGED <<effect, answer>>

HasTurn(c) == queue # <<>> /\ c = Head(queue)

\* One more statement; a transaction shows all of its statements at once.
TakesEffect(c) ==
  /\ c \in Operation
  /\ \E n \in 1..MaxWork :
       /\ IF c \in Atomic THEN effect[c] = 0 ELSE n = effect[c] + 1
       /\ effect' = [effect EXCEPT ![c] = n]

Answer(c, r) ==
  /\ queue' = Tail(queue)
  /\ answer' = [answer EXCEPT ![c] = r]

Turn(c) ==
  /\ HasTurn(c)
  /\ TakesEffect(c) \/ UNCHANGED effect
  /\ Answer(c, "ok") \/ Answer(c, "failed") \/ UNCHANGED <<queue, answer>>
  /\ UNCHANGED closing

Next ==
  \/ \E c \in Operation : Call(c) \/ Refuse(c)
  \/ \E c \in Closer : Close(c)
  \/ \E c \in Operation \cup Closer : Turn(c)

Spec == Init /\ [][Next]_vars
=============================================================================
