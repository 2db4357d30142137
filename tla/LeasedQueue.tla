----------------------------- MODULE LeasedQueue -----------------------------
(***************************************************************************)
(* What the durable outbox promises, without rows, clocks or workers: an   *)
(* item that was added is handed out again and again, each time under a    *)
(* fresh token, until somebody finishes it under the token that is current *)
(* at that moment and after a delivery made under that very token.         *)
(*                                                                         *)
(* This is the contract OutboxWorkers is shown to implement.               *)
(***************************************************************************)
EXTENDS Naturals

CONSTANT Item       \* the outbox ids

VARIABLES
  state,            \* state[i]: "absent", "queued", "held" or "done"
  token,            \* token[i]: how often i has been handed out
  delivered         \* delivered[i]: the tokens under which i was delivered

vars == <<state, token, delivered>>

Init ==
  /\ state = [i \in Item |-> "absent"]
  /\ token = [i \in Item |-> 0]
  /\ delivered = [i \in Item |-> {}]

Add(i) ==
  /\ state[i] = "absent"
  /\ state' = [state EXCEPT ![i] = "queued"]
  /\ UNCHANGED <<token, delivered>>

\* One transaction hands out a batch, each item under a token of its own.
Acquire(S) ==
  /\ \A i \in S : state[i] \in {"queued", "held"}
  /\ state' = [i \in Item |-> IF i \in S THEN "held" ELSE state[i]]
  /\ token' = [i \in Item |-> IF i \in S THEN token[i] + 1 ELSE token[i]]
  /\ UNCHANGED delivered

\* At least once: a delivery may be made under a token that is no longer
\* current, and after the item is done; never under a token not yet issued.
Deliver(i, t) ==
  /\ t \in 1 .. token[i]
  /\ delivered' = [delivered EXCEPT ![i] = @ \cup {t}]
  /\ UNCHANGED <<state, token>>

Release(i) ==
  /\ state[i] = "held"
  /\ state' = [state EXCEPT ![i] = "queued"]
  /\ UNCHANGED <<token, delivered>>

Finish(i) ==
  /\ state[i] = "held"
  /\ token[i] \in delivered[i]
  /\ state' = [state EXCEPT ![i] = "done"]
  /\ UNCHANGED <<token, delivered>>

Next ==
  \/ \E S \in SUBSET Item : Acquire(S)
  \/ \E i \in Item :
       \/ Add(i)
       \/ Release(i)
       \/ Finish(i)
       \/ \E t \in 1 .. token[i] : Deliver(i, t)

Spec == Init /\ [][Next]_vars
=============================================================================
