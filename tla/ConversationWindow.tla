-------------------------- MODULE ConversationWindow --------------------------
(***************************************************************************)
(* The times that decide whether a customer may be written to freely: how  *)
(* an event's own time becomes a stored one (metaTimestampToIso), and what *)
(* getConversationWindowState makes of the latest stored message.  A time  *)
(* is a number of ticks; there is none where the code has null.            *)
(***************************************************************************)
EXTENDS Integers, FiniteSetsExt

CONSTANTS
  WindowMs,     \* length of the window
  Tolerance     \* FUTURE_TOLERANCE_MS

ASSUME WindowAssumption == WindowMs \in Nat \ {0} /\ Tolerance \in Nat

\* The time stored for an event of time sent received at receipt, or none:
\* never in the future, and not at all from too far in it.
EventTimes(sent, receipt) ==
  IF sent > receipt + Tolerance THEN {} ELSE {Min({sent, receipt})}

\* Slip: the window closes after its last tick instead of with it.
RemainingAndOne(inbound, now) ==
  IF inbound = {} THEN 0
  ELSE IF Max(inbound) > now THEN WindowMs
  ELSE Max({0, WindowMs - (now - Max(inbound)) + 1})

\* remainingMs, for the times of a phone's stored messages: a last message
\* from the future leaves the whole window.
Remaining(inbound, now) ==
  IF inbound = {} THEN 0
  ELSE IF Max(inbound) > now THEN WindowMs
  ELSE Max({0, WindowMs - (now - Max(inbound))})

Open(inbound, now) == Remaining(inbound, now) > 0
=============================================================================
