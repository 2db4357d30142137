---------------------------- MODULE MCWebhookIngress ----------------------------
(* WebhookIngress for TLC: a customer's message, a status, an update without  *)
(* a key or projection, and one that the depth gate refuses.  The message is  *)
(* too far in the future for the slowest clock, just not so for the second.   *)
(* The first envelope repeats the message, has something illegible of every   *)
(* sort, a later status of the same message, which is taken for a duplicate,  *)
(* and more than the limit allows.  Requests are good, or one thing is wrong  *)
(* with them, or the signature and the content.                               *)
EXTENDS WebhookIngress

CONSTANTS d1, d2, message, status, read, keyless, deep, noId

Holds(items) == [legible |-> TRUE, items |-> items]
Carries(changes) == [legible |-> TRUE, changes |-> changes]
MCEnvelopes ==
  {<<[legible |-> FALSE, changes |-> <<Holds(<<keyless>>)>>],
     Carries(<<[legible |-> FALSE, items |-> <<deep>>], Holds(<<noId, message, message>>)>>),
     Carries(<<Holds(<<status, read, keyless, keyless>>), Holds(<<deep, deep>>)>>)>>,
   <<Carries(<<Holds(<<message>>)>>)>>,
   <<Carries(<<Holds(<<keyless>>)>>)>>,
   <<Carries(<<Holds(<<status, deep>>)>>)>>}
MCUpdateId == [u \in {message, status, read, keyless, deep} |-> IF u = read THEN status ELSE u]
MCGood == [declared |-> 2, bytes |-> 2, breaks |-> FALSE, signature |-> "right", content |-> "envelope"]
MCRequests ==
  {MCGood,
   [MCGood EXCEPT !.declared = 3],
   [MCGood EXCEPT !.declared = Undeclared, !.bytes = 3, !.breaks = TRUE],
   [MCGood EXCEPT !.bytes = 1, !.breaks = TRUE]}
  \cup {[MCGood EXCEPT !.signature = s] : s \in Signature}
  \cup {[MCGood EXCEPT !.signature = "wrong", !.content = "notJson"],
        [MCGood EXCEPT !.content = "tooDeep"]}
\* Two deliveries are refused only if their signatures are wrong.
MCInit ==
  /\ Init
  /\ \/ \E d \in Delivery : request[d] = MCGood
     \/ \A d \in Delivery : request[d].signature = "wrong"
MCSpec == MCInit /\ [][Next]_vars
MCFairSpec == MCSpec /\ Fairness

MCSent == [u \in {message, status, read} |-> IF u = message THEN 3 ELSE 1]
=============================================================================
