------------------------------ MODULE RateLimiter ------------------------------
(***************************************************************************)
(* The token bucket of the Graph client.  It is refilled when a token is   *)
(* asked for, by the time that has passed since the last refill as the     *)
(* wall clock tells, which may be set back and forward.  A token is Token  *)
(* units, a tick refills one unit; waits are counted in ticks too.         *)
(***************************************************************************)
EXTENDS Integers

CONSTANTS
  Full,         \* capacity, in units
  Token,        \* units of one token
  MaxBacks,     \* bound: ticks that the wall clock is set back
  MaxForwards   \* bound: ticks that it is set forward

ASSUME RateLimiterAssumption ==
  /\ Token \in Nat \ {0}
  /\ Full \in Nat /\ Full >= Token
  /\ MaxBacks \in Nat /\ MaxForwards \in Nat

VARIABLES
  tokens,    \* units in the bucket at the last refill
  elapsed,   \* now() - lastRefillMs, as far as it can matter (Advanced)
  backs,     \* ticks that the clock has been set back
  forwards,  \* ticks that it has been set forward
  ideal      \* history: the level of a bucket that fills with the time that passes

limiterVars == <<tokens, elapsed, backs, forwards, ideal>>

LimiterTypeOK ==
  /\ tokens \in 0..Full
  /\ elapsed \in -MaxBacks..(Full + MaxBacks)
  /\ backs \in 0..MaxBacks
  /\ forwards \in 0..MaxForwards
  /\ ideal \in -MaxForwards..Full

LimiterInit ==
  /\ tokens = Full
  /\ elapsed = 0
  /\ backs = 0
  /\ forwards = 0
  /\ ideal = Full

AtMostFull(n) == IF n > Full THEN Full ELSE n

\* Slip: the bucket overflows.
RefilledPastFull == IF elapsed > 0 THEN tokens + elapsed ELSE tokens

\* refill(): what the bucket holds now; a clock that went back adds nothing.
Refilled == IF elapsed > 0 THEN AtMostFull(tokens + elapsed) ELSE tokens

\* acquire() finds a token.
Take ==
  /\ Refilled >= Token
  /\ tokens' = Refilled - Token
  /\ elapsed' = 0
  /\ ideal' = ideal - Token
  /\ UNCHANGED <<backs, forwards>>

\* Slip: the refill of an acquire that has to wait is forgotten.
MissTokenAndRefill ==
  /\ Refilled < Token
  /\ elapsed' = 0
  /\ UNCHANGED <<tokens, backs, forwards, ideal>>

\* acquire() finds none, and sleeps until the missing units are there.
MissToken ==
  /\ Refilled < Token
  /\ tokens' = Refilled
  /\ elapsed' = 0
  /\ UNCHANGED <<backs, forwards, ideal>>

Missing == Token - Refilled

\* A tick later on the wall clock: of what is more than a full bucket, no more is counted
\* than steps back can still take away.
Advanced == IF tokens + elapsed < Full + MaxBacks - backs THEN elapsed + 1 ELSE elapsed

\* Time passes.
ClockTick ==
  /\ elapsed' = Advanced
  /\ ideal' = AtMostFull(ideal + 1)
  /\ UNCHANGED <<tokens, backs, forwards>>

\* The wall clock is set, by a tick at a time.
ClockStepsBack ==
  /\ backs < MaxBacks
  /\ backs' = backs + 1
  /\ elapsed' = elapsed - 1
  /\ UNCHANGED <<tokens, forwards, ideal>>

ClockStepsForward ==
  /\ forwards < MaxForwards
  /\ forwards' = forwards + 1
  /\ elapsed' = Advanced
  /\ UNCHANGED <<tokens, backs, ideal>>

\* The grants of the limiter are grants of a bucket that fills with the time that has
\* really passed, on credit of no more than the clock has been set forward: acquires that
\* race after their sleeps, refills that are late and clocks set back let nothing more
\* through.  A clock that is set back and then right again is set forward: when a refill
\* has come between (refill re-anchors lastRefillMs), the time in between counts twice.
Bucket == INSTANCE TokenBucket WITH level <- ideal, credit <- forwards
ImplementsTokenBucket == Bucket!Spec
=============================================================================
