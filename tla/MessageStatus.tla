----------------------------- MODULE MessageStatus -----------------------------
(***************************************************************************)
(* When a status event may change the stored status of a message           *)
(* (statusRank, failedMayReplace and shouldAdvanceStatus, which sqlite.ts  *)
(* and postgres.ts define alike), and what an event makes of a row, in     *)
(* appendMessageStatus and, one event after another, in reconcile.         *)
(***************************************************************************)
EXTENDS Naturals

StatusRank == [pending |-> 0, sent |-> 1, delivered |-> 2, read |-> 3, failed |-> 1]

\* STATUS_RANK[status] ?? 0
Rank(s) == IF s \in DOMAIN StatusRank THEN StatusRank[s] ELSE 0

ShouldAdvance(new, current) ==
  IF new = "failed" THEN Rank(current) <= 1 ELSE Rank(new) > Rank(current)

\* Slip: the row takes the time of the event, newer or not.
AbsorbLatest(r, e) ==
  IF ShouldAdvance(e.status, r.status)
  THEN [status |-> e.status, updatedAt |-> e.timestamp]
  ELSE r

\* What an event makes of a row.
Absorb(r, e) ==
  IF ShouldAdvance(e.status, r.status)
  THEN [status |-> e.status,
        updatedAt |-> IF e.timestamp > r.updatedAt THEN e.timestamp ELSE r.updatedAt]
  ELSE r

-----------------------------------------------------------------------------
\* The order in which statuses supersede each other: what the rules above
\* come to, as the documentation has it.
Level(s) ==
  CASE s = "read"      -> 4
    [] s = "delivered" -> 3
    [] s = "failed"    -> 2
    [] s = "sent"      -> 1
    [] OTHER           -> 0
=============================================================================
