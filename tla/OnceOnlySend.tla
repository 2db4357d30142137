----------------------------- MODULE OnceOnlySend -----------------------------
(***************************************************************************)
(* What an Idempotency-Key promises, without rows, requests or failures:   *)
(* a key is bound to one payload for ever, at most one message is sent     *)
(* under it, and only the message that was sent is ever recorded.          *)
(*                                                                         *)
(* This is the contract KeyedSend is shown to implement.                   *)
(***************************************************************************)
CONSTANTS Key, Payload, Message, Unbound

VARIABLES
  bound,            \* bound[k]: the payload of k, or Unbound
  sent,             \* sent[k]: the messages sent under k
  recorded          \* recorded[k]: the messages recorded under k

vars == <<bound, sent, recorded>>

Init ==
  /\ bound = [k \in Key |-> Unbound]
  /\ sent = [k \in Key |-> {}]
  /\ recorded = [k \in Key |-> {}]

Bind(k, p) ==
  /\ bound[k] = Unbound
  /\ bound' = [bound EXCEPT ![k] = p]
  /\ UNCHANGED <<sent, recorded>>

Send(k, m) ==
  /\ bound[k] # Unbound
  /\ sent[k] = {}
  /\ sent' = [sent EXCEPT ![k] = {m}]
  /\ UNCHANGED <<bound, recorded>>

Record(k) ==
  /\ sent[k] # {}
  /\ recorded[k] = {}
  /\ recorded' = [recorded EXCEPT ![k] = sent[k]]
  /\ UNCHANGED <<bound, sent>>

Next ==
  \E k \in Key :
    \/ \E p \in Payload : Bind(k, p)
    \/ \E m \in Message : Send(k, m)
    \/ Record(k)

Spec == Init /\ [][Next]_vars
=============================================================================
