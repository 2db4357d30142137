------------------------------ MODULE TokenBucket ------------------------------
(***************************************************************************)
(* What the rate limiter promises: a bucket that fills by one unit with    *)
(* every tick of time, and grants that take a token out of it.  A clock    *)
(* set forward looks like time that has passed: it opens a credit, by      *)
(* which the bucket may be overdrawn, and no other thing does.             *)
(***************************************************************************)
EXTENDS Integers

CONSTANTS
  Full,    \* units the bucket holds
  Token    \* units of one token

VARIABLES
  level,   \* units in the bucket, below 0 when it is overdrawn
  credit   \* units by which it may be

Init == level = Full /\ credit = 0
Fill == level < Full /\ level' = level + 1 /\ UNCHANGED credit
SetForward == credit' = credit + 1 /\ UNCHANGED level
Grant == level + credit >= Token /\ level' = level - Token /\ UNCHANGED credit
Next == Fill \/ SetForward \/ Grant
Spec == Init /\ [][Next]_<<level, credit>>
=============================================================================
