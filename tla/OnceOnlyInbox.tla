----------------------------- MODULE OnceOnlyInbox -----------------------------
(***************************************************************************)
(* What webhook ingestion promises about one update that has an identity,  *)
(* however often it is delivered: it is taken at most once, and handed to  *)
(* the application or lost, never both and never a second time.            *)
(***************************************************************************)
CONSTANT Update

VARIABLE fate    \* fate[u]: "unseen", "taken", "handled" or "lost"

TypeOK == fate \in [Update -> {"unseen", "taken", "handled", "lost"}]

Init == fate = [u \in Update |-> "unseen"]

Take(u) ==
  /\ fate[u] = "unseen"
  /\ fate' = [fate EXCEPT ![u] = "taken"]

Handle(u) ==
  /\ fate[u] = "taken"
  /\ fate' = [fate EXCEPT ![u] = "handled"]

\* A crash loses whatever its process had taken, and a store whose answer
\* is lost has taken an update for nobody.
Lose(L) ==
  /\ \A u \in L : fate[u] \in {"unseen", "taken"}
  /\ fate' = [u \in Update |-> IF u \in L THEN "lost" ELSE fate[u]]

Next ==
  \/ \E u \in Update : Take(u) \/ Handle(u)
  \/ \E L \in SUBSET Update : Lose(L)

Spec == Init /\ [][Next]_fate
=============================================================================
