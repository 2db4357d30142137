--------------------------- MODULE MCUpdateDispatch ----------------------------
(* UpdateDispatch for TLC: an envelope of two updates, or two of one each. *)
EXTENDS UpdateDispatch

CONSTANTS e1, e2, s1
MCDispatches == Envelopes \X (1..MaxUpdates)
MCLoads == {[e \in Envelopes |-> IF e = e1 THEN 2 ELSE 0], [e \in Envelopes |-> 1]}
MCOptions == {<<TRUE, s1>>}

\* The sequential mode and the limit of one handler, which concern one dispatch, are left
\* to the single envelope.
MCInit == Init /\ (updates[e2] = 1 => cap = 2 /\ concurrency = "parallel")
MCSpec == MCInit /\ [][Next]_vars /\ Fairness
=============================================================================
