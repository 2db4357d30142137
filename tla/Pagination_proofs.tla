--------------------------- MODULE Pagination_proofs ---------------------------
(***************************************************************************)
(* Proofs about the callers of the Graph client, its transport and its     *)
(* limiter, for any callers, limits, bucket and number of retries.         *)
(***************************************************************************)
EXTENDS Pagination, FiniteSetTheorems, TLAPS

-----------------------------------------------------------------------------
(* The bucket *)

\* The limiter never thinks that it has more than has been filled in by time and by the
\* clock's being set forward.
LimiterInv ==
  LimiterTypeOK /\ -backs <= elapsed /\ elapsed <= Full + MaxBacks - backs /\ Refilled <= ideal + forwards

LEMMA RefilledType ==
  ASSUME LimiterTypeOK
  PROVE  Refilled \in 0..Full /\ tokens <= Refilled
<1> USE RateLimiterAssumption
<1>1. CASE elapsed > 0
  BY <1>1 DEF LimiterTypeOK, Refilled, AtMostFull
<1>2. CASE ~ elapsed > 0
  BY <1>2 DEF LimiterTypeOK, Refilled
<1> QED
  BY <1>1, <1>2

LEMMA TakeKeeps ==
  ASSUME LimiterInv, Take
  PROVE  LimiterInv' /\ Bucket!Grant
<1> USE RateLimiterAssumption
<1>1. Refilled \in 0..Full /\ Refilled >= Token /\ Refilled <= ideal + forwards
  BY RefilledType DEF LimiterInv, Take
<1>2. /\ tokens' = Refilled - Token /\ elapsed' = 0 /\ ideal' = ideal - Token
      /\ backs' = backs /\ forwards' = forwards
      /\ ideal \in -MaxForwards..Full /\ backs \in 0..MaxBacks /\ forwards \in 0..MaxForwards
  BY DEF Take, LimiterInv, LimiterTypeOK
<1>3. LimiterTypeOK'
  BY <1>1, <1>2 DEF LimiterTypeOK
<1>4. Refilled' = tokens'
  BY <1>2 DEF Refilled
<1> QED
  BY <1>1, <1>2, <1>3, <1>4 DEF LimiterInv, Bucket!Grant

LEMMA MissKeeps ==
  ASSUME LimiterInv, MissToken
  PROVE  LimiterInv' /\ UNCHANGED <<ideal, forwards>>
<1> USE RateLimiterAssumption
<1>1. Refilled \in 0..Full /\ Refilled <= ideal + forwards
  BY RefilledType DEF LimiterInv
<1>2. /\ tokens' = Refilled /\ elapsed' = 0 /\ UNCHANGED <<ideal, forwards, backs>>
      /\ ideal \in -MaxForwards..Full /\ backs \in 0..MaxBacks /\ forwards \in 0..MaxForwards
  BY DEF MissToken, LimiterInv, LimiterTypeOK
<1>3. LimiterTypeOK'
  BY <1>1, <1>2 DEF LimiterTypeOK
<1>4. Refilled' = tokens'
  BY <1>2 DEF Refilled
<1> QED
  BY <1>1, <1>2, <1>3, <1>4 DEF LimiterInv

\* A tick of the clock, whether time has passed or not, adds a unit at most.
LEMMA AdvancedAddsOne ==
  ASSUME LimiterInv, elapsed' = Advanced, UNCHANGED <<tokens, backs>>
  PROVE  /\ -backs' <= elapsed' /\ elapsed' <= Full + MaxBacks - backs' /\ elapsed' \in Int
         /\ Refilled' <= Refilled + 1 /\ Refilled' <= Full /\ Refilled' \in Int
<1> USE RateLimiterAssumption
<1>1. /\ tokens \in 0..Full /\ elapsed \in Int /\ backs \in 0..MaxBacks
      /\ -backs <= elapsed /\ elapsed <= Full + MaxBacks - backs
  BY DEF LimiterInv, LimiterTypeOK
<1>2. elapsed' = elapsed \/ (elapsed' = elapsed + 1 /\ tokens + elapsed < Full + MaxBacks - backs)
  BY DEF Advanced
<1>3. Refilled' <= Refilled + 1 /\ Refilled' <= Full /\ Refilled' \in Int
  <2>1. CASE elapsed > 0
    BY <1>1, <1>2, <2>1 DEF Refilled, AtMostFull
  <2>2. CASE ~ elapsed > 0
    BY <1>1, <1>2, <2>2 DEF Refilled, AtMostFull
  <2> QED
    BY <2>1, <2>2
<1> QED
  BY <1>1, <1>2, <1>3

LEMMA TickKeeps ==
  ASSUME LimiterInv, ClockTick
  PROVE  LimiterInv' /\ [Bucket!Fill]_<<ideal, forwards>>
<1> USE RateLimiterAssumption
<1>1. /\ tokens \in 0..Full /\ ideal \in -MaxForwards..Full /\ backs \in 0..MaxBacks
      /\ forwards \in 0..MaxForwards /\ Refilled \in 0..Full /\ Refilled <= ideal + forwards
  BY RefilledType DEF LimiterInv, LimiterTypeOK
<1>2. elapsed' = Advanced /\ ideal' = AtMostFull(ideal + 1) /\ UNCHANGED <<tokens, backs, forwards>>
  BY DEF ClockTick
<1>3. /\ -backs' <= elapsed' /\ elapsed' <= Full + MaxBacks - backs' /\ elapsed' \in Int
      /\ Refilled' <= Refilled + 1 /\ Refilled' <= Full /\ Refilled' \in Int
  BY <1>2, AdvancedAddsOne
<1>4. (ideal < Full /\ ideal' = ideal + 1) \/ (ideal = Full /\ ideal' = ideal)
  BY <1>1, <1>2 DEF AtMostFull
<1>5. LimiterTypeOK'
  BY <1>1, <1>2, <1>3, <1>4 DEF LimiterTypeOK
<1>6. Refilled' <= ideal' + forwards'
  BY <1>1, <1>2, <1>3, <1>4
<1>7. [Bucket!Fill]_<<ideal, forwards>>
  BY <1>2, <1>4 DEF Bucket!Fill
<1> QED
  BY <1>3, <1>5, <1>6, <1>7 DEF LimiterInv

LEMMA StepBackKeeps ==
  ASSUME LimiterInv, ClockStepsBack
  PROVE  LimiterInv' /\ UNCHANGED <<ideal, forwards>>
<1> USE RateLimiterAssumption
<1>1. /\ tokens \in 0..Full /\ elapsed \in Int /\ ideal \in -MaxForwards..Full
      /\ backs \in 0..MaxBacks /\ forwards \in 0..MaxForwards
      /\ -backs <= elapsed /\ elapsed <= Full + MaxBacks - backs /\ Refilled <= ideal + forwards
  BY DEF LimiterInv, LimiterTypeOK
<1>2. /\ elapsed' = elapsed - 1 /\ backs < MaxBacks /\ backs' = backs + 1
      /\ UNCHANGED <<tokens, forwards, ideal>>
  BY DEF ClockStepsBack
<1>3. LimiterTypeOK' /\ -backs' <= elapsed' /\ elapsed' <= Full + MaxBacks - backs'
  BY <1>1, <1>2 DEF LimiterTypeOK
<1>4. Refilled' <= ideal' + forwards'
  <2>1. CASE elapsed > 1
    BY <1>1, <1>2, <2>1 DEF Refilled, AtMostFull
  <2>2. CASE ~ elapsed > 1
    <3>1. Refilled' = tokens
      BY <1>1, <1>2, <2>2 DEF Refilled
    <3>2. tokens <= Refilled
      BY RefilledType DEF LimiterInv
    <3>3. Refilled \in 0..Full
      BY RefilledType DEF LimiterInv
    <3> QED
      BY <1>1, <1>2, <3>1, <3>2, <3>3
  <2> QED
    BY <2>1, <2>2
<1> QED
  BY <1>2, <1>3, <1>4 DEF LimiterInv

LEMMA StepForwardKeeps ==
  ASSUME LimiterInv, ClockStepsForward
  PROVE  LimiterInv' /\ Bucket!SetForward
<1> USE RateLimiterAssumption
<1>1. /\ tokens \in 0..Full /\ ideal \in -MaxForwards..Full /\ backs \in 0..MaxBacks
      /\ forwards \in 0..MaxForwards /\ Refilled \in 0..Full /\ Refilled <= ideal + forwards
  BY RefilledType DEF LimiterInv, LimiterTypeOK
<1>2. /\ elapsed' = Advanced /\ forwards < MaxForwards /\ forwards' = forwards + 1
      /\ UNCHANGED <<tokens, backs, ideal>>
  BY DEF ClockStepsForward
<1>3. /\ -backs' <= elapsed' /\ elapsed' <= Full + MaxBacks - backs' /\ elapsed' \in Int
      /\ Refilled' <= Refilled + 1 /\ Refilled' \in Int
  BY <1>2, AdvancedAddsOne
<1>4. LimiterTypeOK'
  BY <1>1, <1>2, <1>3 DEF LimiterTypeOK
<1>5. Refilled' <= ideal' + forwards'
  BY <1>1, <1>2, <1>3
<1> QED
  BY <1>2, <1>3, <1>4, <1>5 DEF LimiterInv, Bucket!SetForward

LEMMA LimiterStays ==
  ASSUME LimiterInv, UNCHANGED limiterVars
  PROVE  LimiterInv'
BY DEF limiterVars, LimiterInv, LimiterTypeOK, Refilled

-----------------------------------------------------------------------------
(* Attempts *)

\* Where a request stands, and how many tokens and attempts it has had by then.
Counted(c) ==
  /\ phase[c] = "idle" => attempt[c] = 0 /\ taken[c] = 0
  /\ phase[c] \in {"admitting", "throttled", "admitted", "notifyResponse", "notifyError", "backoff"}
       => attempt[c] <= Retries
  /\ phase[c] = "inFlight" => attempt[c] >= 1
  /\ phase[c] # "settled" => taken[c] = IF phase[c] = "admitted" THEN attempt[c] + 1 ELSE attempt[c]
  /\ phase[c] = "settled" =>
       taken[c] = attempt[c] \/ (taken[c] = attempt[c] + 1 /\ c \in aborted)

\* An attempt whose request may go on or be sent again is not among those that count.
Landing(c) ==
  /\ landed[c] \subseteq {attempt[c]}
  /\ phase[c] \notin {"inFlight", "settled"} => landed[c] = {}
  /\ kind[c] = "get" => landed[c] = {}

CallInv == \A c \in Callers : Counted(c) /\ Landing(c)

\* While a page loop goes on it has all the pages before its cursor, and a next.
PageInv ==
  /\ PagesAreAccountedFor
  /\ \A c \in Pagers :
       result[c] = "none" => following[c] = "cursor" /\ cursor[c] = Len(pages[c]) + 1 /\ Len(pages[c]) < MaxPages

IInv == TypeOK /\ LimiterInv /\ CallInv /\ PageInv

LEMMA RetriesAreAllowed ==
  ASSUME NEW c \in Callers, kind[c] # "get", TypeOK,
         NEW what \in {"ok", "busy", "network", "failed", "thrown"}, MayRetry(c, what)
  PROVE  what \in MayRepeat(c)
BY DEF MayRepeat, MayRetry, RetryOn, TypeOK, TransportTypeOK

\* What is heard of an attempt that may be made again clears it.
LEMMA HearKeeps ==
  ASSUME NEW c \in Callers, IInv, phase[c] = "inFlight",
         NEW what \in {"ok", "busy", "network", "failed", "thrown"}, Hear(c, what)
  PROVE  /\ landed' \in [Callers -> SUBSET (1..(Retries + 1))]
         /\ landed'[c] \subseteq landed[c]
         /\ MayRetry(c, what) => landed'[c] = {}
         /\ \A d \in Callers \ {c} : landed'[d] = landed[d]
<1>1. TypeOK /\ landed \in [Callers -> SUBSET (1..(Retries + 1))] /\ Landing(c)
  BY DEF IInv, CallInv, TypeOK, TransportTypeOK
<1>2. CASE what \in MayRepeat(c)
  <2>1. landed' = [landed EXCEPT ![c] = @ \ {attempt[c]}]
    BY <1>2 DEF Hear
  <2> QED
    BY <1>1, <2>1 DEF Landing
<1>3. CASE what \notin MayRepeat(c)
  <2>1. landed' = landed
    BY <1>3 DEF Hear
  <2>2. MayRetry(c, what) => kind[c] = "get"
    BY <1>1, <1>3, RetriesAreAllowed
  <2> QED
    BY <1>1, <2>1, <2>2 DEF Landing
<1> QED
  BY <1>2, <1>3

LEMMA InitHolds == Init => IInv
<1> SUFFICES ASSUME Init PROVE IInv
  OBVIOUS
<1> USE RateLimiterAssumption, ReliableTransportAssumption
<1>1. LimiterInv
  BY DEF Init, TransportInit, LimiterInit, LimiterInv, LimiterTypeOK, Refilled
<1>2. TypeOK
  BY <1>1 DEF Init, TransportInit, TypeOK, TransportTypeOK, LimiterInv, Phase, Outcome, Result, Following
<1>3. CallInv
  BY DEF Init, TransportInit, CallInv, Counted, Landing
<1>4. PageInv
  BY PaginationAssumption DEF Init, PageInv, PagesAreAccountedFor
<1> QED
  BY <1>1, <1>2, <1>3, <1>4 DEF IInv

\* What a step does for the callers, when only one of them moves.
LEMMA OthersStay ==
  ASSUME NEW c \in Callers, CallInv, TransportTypeOK,
         Counted(c)', Landing(c)',
         retryPosts' = retryPosts, kind' = kind, aborted' = aborted,
         \A d \in Callers \ {c} :
           phase'[d] = phase[d] /\ attempt'[d] = attempt[d] /\ taken'[d] = taken[d] /\ landed'[d] = landed[d]
  PROVE  CallInv'
<1> SUFFICES ASSUME NEW d \in Callers PROVE Counted(d)' /\ Landing(d)'
  BY DEF CallInv
<1>1. CASE d = c
  BY <1>1
<1>2. CASE d # c
  <2>1. Counted(d) /\ Landing(d)
    BY DEF CallInv
  <2>2. /\ phase'[d] = phase[d] /\ attempt'[d] = attempt[d] /\ taken'[d] = taken[d]
        /\ landed'[d] = landed[d] /\ kind'[d] = kind[d]
    BY <1>2
  <2> QED
    BY <2>1, <2>2 DEF Counted, Landing
<1> QED
  BY <1>1, <1>2

Kept == TransportTypeOK' /\ LimiterInv' /\ CallInv'

LEMMA StartKeeps ==
  ASSUME NEW c \in Callers, IInv, Start(c)
  PROVE  Kept
<1> USE ReliableTransportAssumption
<1>1. TransportTypeOK /\ LimiterInv /\ CallInv /\ Counted(c) /\ Landing(c)
  BY DEF IInv, CallInv, TypeOK
<1>2. LimiterInv'
  BY <1>1, LimiterStays DEF Start
<1>3. TransportTypeOK'
  BY <1>1, <1>2, RateLimiterAssumption DEF Start, TransportTypeOK, LimiterInv, Phase, Outcome, Counted, Goes, Settle
<1>4. Counted(c)' /\ Landing(c)'
  BY <1>1 DEF Start, Counted, Landing, TransportTypeOK, Goes, Settle
<1>5. CallInv'
  <2>1. /\ retryPosts' = retryPosts /\ kind' = kind /\ aborted' = aborted
        /\ \A d \in Callers \ {c} :
             phase'[d] = phase[d] /\ attempt'[d] = attempt[d] /\ taken'[d] = taken[d] /\ landed'[d] = landed[d]
    BY <1>1 DEF Start, TransportTypeOK, Goes, Settle
  <2> QED
    BY <1>1, <1>4, <2>1, OthersStay
<1> QED
  BY <1>2, <1>3, <1>5 DEF Kept

LEMMA SendKeeps ==
  ASSUME NEW c \in Callers, IInv, Send(c)
  PROVE  Kept
<1> USE ReliableTransportAssumption
<1>1. TransportTypeOK /\ LimiterInv /\ CallInv /\ Counted(c) /\ Landing(c)
  BY DEF IInv, CallInv, TypeOK
<1>2. LimiterInv'
  BY <1>1, LimiterStays DEF Send
<1>3. TransportTypeOK'
  BY <1>1, <1>2, RateLimiterAssumption DEF Send, TransportTypeOK, LimiterInv, Phase, Outcome, Counted, Goes, Settle
<1>4. Counted(c)' /\ Landing(c)'
  BY <1>1 DEF Send, Counted, Landing, TransportTypeOK, Goes, Settle
<1>5. CallInv'
  <2>1. /\ retryPosts' = retryPosts /\ kind' = kind /\ aborted' = aborted
        /\ \A d \in Callers \ {c} :
             phase'[d] = phase[d] /\ attempt'[d] = attempt[d] /\ taken'[d] = taken[d] /\ landed'[d] = landed[d]
    BY <1>1 DEF Send, TransportTypeOK, Goes, Settle
  <2> QED
    BY <1>1, <1>4, <2>1, OthersStay
<1> QED
  BY <1>2, <1>3, <1>5 DEF Kept

LEMMA RespondKeeps ==
  ASSUME NEW c \in Callers, NEW what \in {"ok", "busy", "failed"}, IInv, Respond(c, what)
  PROVE  Kept
<1> USE ReliableTransportAssumption
<1>1. TransportTypeOK /\ LimiterInv /\ CallInv /\ Counted(c) /\ Landing(c)
  BY DEF IInv, CallInv, TypeOK
<1>2. LimiterInv'
  BY <1>1, LimiterStays DEF Respond
<1>3. /\ landed' \in [Callers -> SUBSET (1..(Retries + 1))]
      /\ landed'[c] \subseteq landed[c]
      /\ MayRetry(c, what) => landed'[c] = {}
      /\ \A d \in Callers \ {c} : landed'[d] = landed[d]
  BY HearKeeps DEF Respond
<1>4. TransportTypeOK'
  <2>1. phase' \in [Callers -> Phase] /\ outcome' \in [Callers -> Outcome]
    BY <1>1 DEF Respond, TransportTypeOK, Phase, Outcome, Goes, Settle
  <2> QED
    BY <1>1, <1>2, <1>3, <2>1 DEF Respond, TransportTypeOK, LimiterInv
<1>5. /\ phase[c] = "inFlight" /\ UNCHANGED <<retryPosts, kind, attempt, aborted, taken>>
      /\ phase'[c] = "settled" \/ (phase'[c] = "notifyResponse" /\ MayRetry(c, what))
      /\ \A d \in Callers \ {c} : phase'[d] = phase[d]
  BY <1>1 DEF Respond, Goes, Settle, TransportTypeOK
<1>6. Counted(c)' /\ Landing(c)'
  BY <1>1, <1>3, <1>5 DEF Counted, MayRetry, Landing, TransportTypeOK
<1> QED
  BY <1>1, <1>2, <1>3, <1>4, <1>5, <1>6, OthersStay DEF Kept

LEMMA ProcessKeeps ==
  ASSUME NEW c \in Callers, IInv, Process(c)
  PROVE  Kept
<1> USE ReliableTransportAssumption
<1>1. TransportTypeOK /\ LimiterInv /\ CallInv /\ Counted(c) /\ Landing(c)
  BY DEF IInv, CallInv, TypeOK
<1>2. LimiterInv'
  BY <1>1, LimiterStays DEF Process
<1>3. TransportTypeOK'
  BY <1>1, <1>2, RateLimiterAssumption DEF Process, TransportTypeOK, LimiterInv, Phase, Outcome, Counted, Goes, Settle
<1>4. Counted(c)' /\ Landing(c)'
  BY <1>1 DEF Process, Counted, Landing, TransportTypeOK, Goes, Settle
<1>5. CallInv'
  <2>1. /\ retryPosts' = retryPosts /\ kind' = kind /\ aborted' = aborted
        /\ \A d \in Callers \ {c} :
             phase'[d] = phase[d] /\ attempt'[d] = attempt[d] /\ taken'[d] = taken[d] /\ landed'[d] = landed[d]
    BY <1>1 DEF Process, TransportTypeOK, Goes, Settle
  <2> QED
    BY <1>1, <1>4, <2>1, OthersStay
<1> QED
  BY <1>2, <1>3, <1>5 DEF Kept

LEMMA LoseKeeps ==
  ASSUME NEW c \in Callers, IInv, Lose(c)
  PROVE  Kept
<1> USE ReliableTransportAssumption
<1>1. TransportTypeOK /\ LimiterInv /\ CallInv /\ Counted(c) /\ Landing(c)
  BY DEF IInv, CallInv, TypeOK
<1>2. LimiterInv'
  BY <1>1, LimiterStays DEF Lose
<1>3. /\ landed' \in [Callers -> SUBSET (1..(Retries + 1))]
      /\ landed'[c] \subseteq landed[c]
      /\ MayRetry(c, "network") => landed'[c] = {}
      /\ \A d \in Callers \ {c} : landed'[d] = landed[d]
  BY HearKeeps DEF Lose
<1>4. TransportTypeOK'
  <2>1. phase' \in [Callers -> Phase] /\ outcome' \in [Callers -> Outcome]
    BY <1>1 DEF Lose, Catch, TransportTypeOK, Phase, Outcome, Goes, Settle
  <2> QED
    BY <1>1, <1>2, <1>3, <2>1 DEF Lose, TransportTypeOK, LimiterInv
<1>5. /\ phase[c] = "inFlight" /\ UNCHANGED <<retryPosts, kind, attempt, aborted, taken>>
      /\ phase'[c] = "settled" \/ (phase'[c] = "notifyError" /\ MayRetry(c, "network"))
      /\ \A d \in Callers \ {c} : phase'[d] = phase[d]
  BY <1>1 DEF Lose, Catch, Goes, Settle, TransportTypeOK
<1>6. Counted(c)' /\ Landing(c)'
  BY <1>1, <1>3, <1>5 DEF Counted, MayRetry, Landing, TransportTypeOK
<1> QED
  BY <1>1, <1>2, <1>3, <1>4, <1>5, <1>6, OthersStay DEF Kept

LEMMA NotifiedKeeps ==
  ASSUME NEW c \in Callers, NEW how \in {"ok", "network", "thrown"}, IInv, Notified(c, how)
  PROVE  Kept
<1> USE ReliableTransportAssumption
<1>1. TransportTypeOK /\ LimiterInv /\ CallInv /\ Counted(c) /\ Landing(c)
  BY DEF IInv, CallInv, TypeOK
<1>2. LimiterInv'
  BY <1>1, LimiterStays DEF Notified
<1>3. TransportTypeOK'
  BY <1>1, <1>2, RateLimiterAssumption DEF Notified, Catch, MayRetry, RetryOn, TransportTypeOK, LimiterInv, Phase, Outcome, Counted, Goes, Settle
<1>4. Counted(c)' /\ Landing(c)'
  BY <1>1 DEF Notified, Catch, MayRetry, RetryOn, Counted, Landing, TransportTypeOK, Goes, Settle
<1>5. CallInv'
  <2>1. /\ retryPosts' = retryPosts /\ kind' = kind /\ aborted' = aborted
        /\ \A d \in Callers \ {c} :
             phase'[d] = phase[d] /\ attempt'[d] = attempt[d] /\ taken'[d] = taken[d] /\ landed'[d] = landed[d]
    BY <1>1 DEF Notified, Catch, MayRetry, RetryOn, TransportTypeOK, Goes, Settle
  <2> QED
    BY <1>1, <1>4, <2>1, OthersStay
<1> QED
  BY <1>2, <1>3, <1>5 DEF Kept

LEMMA ResumeKeeps ==
  ASSUME NEW c \in Callers, IInv, Resume(c)
  PROVE  Kept
<1> USE ReliableTransportAssumption
<1>1. TransportTypeOK /\ LimiterInv /\ CallInv /\ Counted(c) /\ Landing(c)
  BY DEF IInv, CallInv, TypeOK
<1>2. LimiterInv'
  BY <1>1, LimiterStays DEF Resume
<1>3. TransportTypeOK'
  BY <1>1, <1>2, RateLimiterAssumption DEF Resume, TransportTypeOK, LimiterInv, Phase, Outcome, Counted, Goes, Settle
<1>4. Counted(c)' /\ Landing(c)'
  BY <1>1 DEF Resume, Counted, Landing, TransportTypeOK, Goes, Settle
<1>5. CallInv'
  <2>1. /\ retryPosts' = retryPosts /\ kind' = kind /\ aborted' = aborted
        /\ \A d \in Callers \ {c} :
             phase'[d] = phase[d] /\ attempt'[d] = attempt[d] /\ taken'[d] = taken[d] /\ landed'[d] = landed[d]
    BY <1>1 DEF Resume, TransportTypeOK, Goes, Settle
  <2> QED
    BY <1>1, <1>4, <2>1, OthersStay
<1> QED
  BY <1>2, <1>3, <1>5 DEF Kept

LEMMA AbortWakesKeeps ==
  ASSUME NEW c \in Callers, IInv, AbortWakes(c)
  PROVE  Kept
<1> USE ReliableTransportAssumption
<1>1. TransportTypeOK /\ LimiterInv /\ CallInv /\ Counted(c) /\ Landing(c)
  BY DEF IInv, CallInv, TypeOK
<1>2. LimiterInv'
  BY <1>1, LimiterStays DEF AbortWakes
<1>3. TransportTypeOK'
  BY <1>1, <1>2, RateLimiterAssumption DEF AbortWakes, TransportTypeOK, LimiterInv, Phase, Outcome, Counted, Goes, Settle
<1>4. Counted(c)' /\ Landing(c)'
  BY <1>1 DEF AbortWakes, Counted, Landing, TransportTypeOK, Goes, Settle
<1>5. CallInv'
  <2>1. /\ retryPosts' = retryPosts /\ kind' = kind /\ aborted' = aborted
        /\ \A d \in Callers \ {c} :
             phase'[d] = phase[d] /\ attempt'[d] = attempt[d] /\ taken'[d] = taken[d] /\ landed'[d] = landed[d]
    BY <1>1 DEF AbortWakes, TransportTypeOK, Goes, Settle
  <2> QED
    BY <1>1, <1>4, <2>1, OthersStay
<1> QED
  BY <1>2, <1>3, <1>5 DEF Kept

LEMMA AdmitKeeps ==
  ASSUME NEW c \in Callers, IInv, Admit(c)
  PROVE  Kept /\ (Bucket!Grant \/ UNCHANGED <<ideal, forwards>>)
<1> USE ReliableTransportAssumption
<1>1. TransportTypeOK /\ LimiterInv /\ CallInv /\ Counted(c) /\ Landing(c)
  BY DEF IInv, CallInv, TypeOK
<1>2. /\ phase[c] \in {"admitting", "throttled"} /\ attempt[c] \in 0..Retries /\ taken[c] = attempt[c]
      /\ landed[c] \subseteq 1..(Retries + 1)
  BY <1>1 DEF Admit, Counted, TransportTypeOK
<1>3. UNCHANGED <<retryPosts, kind, attempt, aborted, landed>>
  BY DEF Admit
<1>4. CASE c \in aborted /\ Settle(c, "error") /\ UNCHANGED <<limiterVars, wait, taken>>
  <2>1. LimiterInv'
    BY <1>1, <1>4, LimiterStays
  <2>2. TransportTypeOK'
    BY <1>1, <1>3, <1>4, <2>1 DEF TransportTypeOK, LimiterInv, Phase, Outcome, Settle, Goes
  <2>3. Counted(c)' /\ Landing(c)'
    BY <1>1, <1>2, <1>3, <1>4 DEF TransportTypeOK, Counted, Landing, Settle, Goes
  <2>4. CallInv'
    BY <1>1, <1>3, <1>4, <2>3, OthersStay DEF TransportTypeOK, Settle, Goes
  <2> QED
    BY <1>4, <2>1, <2>2, <2>4 DEF Kept, limiterVars
<1>5. CASE Take /\ Goes(c, "admitted") /\ taken' = [taken EXCEPT ![c] = @ + 1] /\ UNCHANGED <<wait, outcome>>
  <2>1. LimiterInv' /\ Bucket!Grant
    BY <1>1, <1>5, TakeKeeps
  <2>2. TransportTypeOK'
    BY <1>1, <1>2, <1>3, <1>5, <2>1 DEF TransportTypeOK, LimiterInv, Phase, Goes
  <2>3. Counted(c)' /\ Landing(c)'
    BY <1>1, <1>2, <1>3, <1>5 DEF TransportTypeOK, Counted, Landing, Goes
  <2>4. CallInv'
    BY <1>1, <1>3, <1>5, <2>3, OthersStay DEF TransportTypeOK, Goes
  <2> QED
    BY <2>1, <2>2, <2>4 DEF Kept
<1>6. CASE MissToken /\ Goes(c, "throttled") /\ wait' = [wait EXCEPT ![c] = Missing] /\ UNCHANGED <<outcome, taken>>
  <2>1. LimiterInv' /\ UNCHANGED <<ideal, forwards>>
    BY <1>1, <1>6, MissKeeps
  <2>2. Missing \in 0..Token
    BY <1>1, <1>6, RefilledType, RateLimiterAssumption DEF LimiterInv, MissToken, Missing
  <2>3. TransportTypeOK'
    BY <1>1, <1>3, <1>6, <2>1, <2>2 DEF TransportTypeOK, LimiterInv, Phase, Goes
  <2>4. Counted(c)' /\ Landing(c)'
    BY <1>1, <1>2, <1>3, <1>6 DEF TransportTypeOK, Counted, Landing, Goes
  <2>5. CallInv'
    BY <1>1, <1>3, <1>6, <2>4, OthersStay DEF TransportTypeOK, Goes
  <2> QED
    BY <2>1, <2>3, <2>5 DEF Kept
<1> QED
  BY <1>4, <1>5, <1>6 DEF Admit

LEMMA AbortKeeps ==
  ASSUME NEW c \in Callers, IInv, Abort(c)
  PROVE  Kept
<1>1. TransportTypeOK /\ LimiterInv /\ CallInv
  BY DEF IInv, TypeOK
<1>2. LimiterInv'
  BY <1>1, LimiterStays DEF Abort
<1>3. TransportTypeOK'
  BY <1>1, <1>2 DEF Abort, requestVars, TransportTypeOK, LimiterInv
<1>4. CallInv'
  BY <1>1 DEF Abort, requestVars, CallInv, Counted, Landing
<1> QED
  BY <1>2, <1>3, <1>4 DEF Kept

LEMMA CallersStay ==
  ASSUME IInv, LimiterInv', wait' \in [Callers -> 0..Token],
         UNCHANGED <<retryPosts, kind, phase, attempt, outcome, taken, landed, aborted>>
  PROVE  Kept
BY DEF IInv, TypeOK, TransportTypeOK, LimiterInv, CallInv, Counted, Landing, Kept

LEMMA TimeKeeps ==
  ASSUME IInv, Tick \/ ClockIsSet
  PROVE  Kept /\ [Bucket!Fill \/ Bucket!SetForward]_<<ideal, forwards>>
<1>1. LimiterInv /\ wait \in [Callers -> 0..Token]
  BY DEF IInv, TypeOK, TransportTypeOK
<1>2. CASE Tick
  <2>1. LimiterInv' /\ [Bucket!Fill]_<<ideal, forwards>>
    BY <1>1, <1>2, TickKeeps DEF Tick
  <2>2. wait' \in [Callers -> 0..Token]
    BY <1>1, <1>2, RateLimiterAssumption DEF Tick
  <2> QED
    BY <1>2, <2>1, <2>2, CallersStay DEF Tick
<1>3. CASE ClockIsSet
  <2>1. LimiterInv' /\ [Bucket!SetForward]_<<ideal, forwards>>
    BY <1>1, <1>3, StepBackKeeps, StepForwardKeeps DEF ClockIsSet
  <2> QED
    BY <1>1, <1>3, <2>1, CallersStay DEF ClockIsSet, callVars, requestVars
<1> QED
  BY <1>2, <1>3

LEMMA RequestKeeps ==
  ASSUME IInv, NEW c \in Callers, RequestStep(c)
  PROVE  Kept /\ (Bucket!Grant \/ UNCHANGED <<ideal, forwards>>)
<1>1. CASE Admit(c)
  BY <1>1, AdmitKeeps
<1>2. CASE ~ Admit(c)
  <2>1. Kept
    BY <1>2, StartKeeps, SendKeeps, RespondKeeps, LoseKeeps, NotifiedKeeps, ResumeKeeps, AbortWakesKeeps
       DEF RequestStep
  <2>2. UNCHANGED <<ideal, forwards>>
    BY <1>2 DEF RequestStep, Start, Send, Respond, Lose, Notified, Resume, AbortWakes, limiterVars
  <2> QED
    BY <2>1, <2>2
<1> QED
  BY <1>1, <1>2

-----------------------------------------------------------------------------
(* Pages *)

LEMMA AppendCount ==
  ASSUME NEW s \in Seq(Nat), s = [i \in 1..Len(s) |-> i]
  PROVE  /\ Len(Append(s, Len(s) + 1)) = Len(s) + 1
         /\ Append(s, Len(s) + 1) = [i \in 1..(Len(s) + 1) |-> i]
<1> DEFINE t == Append(s, Len(s) + 1)
<1>1. Len(s) \in Nat /\ t \in Seq(Nat) /\ Len(t) = Len(s) + 1
  OBVIOUS
<1>2. \A i \in 1..(Len(s) + 1) : t[i] = i
  <2> SUFFICES ASSUME NEW i \in 1..(Len(s) + 1) PROVE t[i] = i
    OBVIOUS
  <2>1. CASE i = Len(s) + 1
    BY <1>1, <2>1
  <2>2. CASE i # Len(s) + 1
    <3>1. i \in 1..Len(s)
      BY <1>1, <2>2
    <3>2. t[i] = s[i]
      BY <3>1
    <3>3. s[i] = i
      BY <3>1
    <3> QED
      BY <3>2, <3>3
  <2> QED
    BY <2>1, <2>2
<1>3. t = [i \in 1..Len(t) |-> t[i]]
  BY <1>1
<1> QED
  BY <1>1, <1>2, <1>3

LEMMA PagersStay ==
  ASSUME IInv, Kept, aborted \subseteq aborted', UNCHANGED pagerVars
  PROVE  IInv'
BY DEF IInv, Kept, TypeOK, PageInv, PagesAreAccountedFor, pagerVars

\* A request that ends is no step of the transport.
LEMMA SettledKeeps ==
  ASSUME IInv, UNCHANGED <<limiterVars, callVars>>
  PROVE  Kept
<1>1. LimiterInv'
  BY LimiterStays DEF IInv
<1>2. wait' \in [Callers -> 0..Token]
  BY DEF IInv, TypeOK, TransportTypeOK, callVars, requestVars
<1> QED
  BY <1>1, <1>2, CallersStay DEF callVars, requestVars

\* The caller is given a result that says nothing of its pages, or that it was aborted.
LEMMA ResultKeeps ==
  ASSUME IInv, NEW c \in Callers, NEW r \in Result \ {"none"}, Kept, aborted' = aborted,
         result[c] = "none",
         c \in Pagers => r = "failed" \/ (r = "aborted" /\ c \in aborted),
         result' = [result EXCEPT ![c] = r],
         UNCHANGED <<cursor, following, pages>>
  PROVE  IInv'
<1>1. TypeOK'
  BY DEF Kept, IInv, TypeOK
<1>2. PageInv'
  <2> SUFFICES ASSUME NEW d \in Pagers
               PROVE  /\ pages[d] = [i \in 1..Len(pages[d]) |-> i]
                      /\ result'[d] = "pageLimit" <=> Len(pages[d]) = MaxPages
                      /\ result'[d] = "complete" => following[d] # "cursor"
                      /\ result'[d] = "aborted" => d \in aborted /\ following[d] = "cursor"
                      /\ Len(pages[d]) <= MaxPages
                      /\ result'[d] = "none" => following[d] = "cursor" /\ cursor[d] = Len(pages[d]) + 1
                                                  /\ Len(pages[d]) < MaxPages
    BY DEF PageInv, PagesAreAccountedFor
  <2>1. /\ pages[d] = [i \in 1..Len(pages[d]) |-> i]
        /\ result[d] = "pageLimit" <=> Len(pages[d]) = MaxPages
        /\ result[d] = "complete" => following[d] # "cursor"
        /\ result[d] = "aborted" => d \in aborted /\ following[d] = "cursor"
        /\ Len(pages[d]) <= MaxPages
        /\ result[d] = "none" => following[d] = "cursor" /\ cursor[d] = Len(pages[d]) + 1
                                    /\ Len(pages[d]) < MaxPages
    BY DEF IInv, PageInv, PagesAreAccountedFor
  <2>2. CASE d = c
    <3>1. result'[d] = r
      BY <2>2 DEF IInv, TypeOK
    <3>2. pages[d] \in Seq(Nat) /\ Len(pages[d]) # MaxPages
      <4>1. pages[d] \in Seq(Nat)
        BY <2>2 DEF IInv, TypeOK
      <4> QED
        BY <2>1, <2>2, <4>1
    <3> QED
      BY <2>1, <2>2, <3>1, <3>2
  <2>3. CASE d # c
    <3>1. result'[d] = result[d]
      BY <2>3 DEF IInv, TypeOK
    <3> QED
      BY <2>1, <3>1
  <2> QED
    BY <2>2, <2>3
<1> QED
  BY <1>1, <1>2 DEF Kept, IInv

LEMMA ReturnKeeps ==
  ASSUME IInv, NEW c \in Callers, Return(c)
  PROVE  Kept
<1>1. TransportTypeOK /\ LimiterInv /\ CallInv
  BY DEF IInv, TypeOK
<1>2. LimiterInv'
  BY <1>1, LimiterStays DEF Return
<1>3. TransportTypeOK'
  BY <1>1, <1>2, ReliableTransportAssumption DEF Return, TransportTypeOK, LimiterInv, Phase, Outcome
<1>4. Counted(c)' /\ Landing(c)'
  BY <1>1 DEF Return, Counted, Landing, TransportTypeOK
<1>5. CallInv'
  BY <1>1, <1>4, OthersStay DEF Return, TransportTypeOK
<1> QED
  BY <1>2, <1>3, <1>5 DEF Kept

LEMMA TurnPageKeeps ==
  ASSUME IInv, NEW c \in Callers, NEW next \in Following, TurnPage(c, next)
  PROVE  IInv'
<1> USE PaginationAssumption
<1> DEFINE n == Len(pages[c])
<1>1. /\ c \in Pagers /\ result[c] = "none" /\ following[c] = "cursor" /\ cursor[c] = n + 1 /\ n < MaxPages
      /\ pages[c] \in Seq(Nat) /\ n \in Nat /\ pages[c] = [i \in 1..n |-> i]
  <2>1. c \in Pagers /\ result[c] = "none"
    BY DEF TurnPage, Answered
  <2>2. pages[c] \in Seq(Nat)
    BY DEF IInv, TypeOK
  <2>3. following[c] = "cursor" /\ cursor[c] = n + 1 /\ n < MaxPages /\ pages[c] = [i \in 1..n |-> i]
    BY <2>1 DEF IInv, PageInv, PagesAreAccountedFor
  <2> QED
    BY <2>1, <2>2, <2>3
<1>2. /\ pages' = [pages EXCEPT ![c] = Append(@, cursor[c])]
      /\ result' = [result EXCEPT ![c] = PageResult(Len(pages'[c]), next)]
      /\ following' = [following EXCEPT ![c] = IF result'[c] = "pageLimit" THEN @ ELSE next]
      /\ cursor' = [cursor EXCEPT ![c] = IF result'[c] = "none" THEN @ + 1 ELSE @]
      /\ aborted' = aborted
  BY DEF TurnPage, Return
<1>3. pages'[c] = [i \in 1..(n + 1) |-> i] /\ Len(pages'[c]) = n + 1 /\ pages'[c] \in Seq(Nat)
  <2>1. pages'[c] = Append(pages[c], n + 1)
    BY <1>1, <1>2 DEF IInv, TypeOK
  <2>2. Append(pages[c], n + 1) \in Seq(Nat)
    BY <1>1
  <2> QED
    BY <1>1, <2>1, <2>2, AppendCount
<1>4. Kept
  BY ReturnKeeps DEF TurnPage
<1>5. TypeOK'
  <2>1. pages' \in [Callers -> Seq(Nat)]
    <3>1. Append(pages[c], cursor[c]) \in Seq(Nat)
      BY <1>1
    <3> QED
      BY <1>2, <3>1 DEF IInv, TypeOK
  <2>2. result' \in [Callers -> Result]
    BY <1>2 DEF IInv, TypeOK, Result, PageResult
  <2>3. cursor' \in [Callers -> Nat] /\ following' \in [Callers -> Following]
    BY <1>2 DEF IInv, TypeOK
  <2> QED
    BY <1>4, <2>1, <2>2, <2>3 DEF Kept, TypeOK
<1>6. PageInv'
  <2> SUFFICES ASSUME NEW d \in Pagers
               PROVE  /\ pages'[d] = [i \in 1..Len(pages'[d]) |-> i]
                      /\ result'[d] = "pageLimit" <=> Len(pages'[d]) = MaxPages
                      /\ result'[d] = "complete" => following'[d] # "cursor"
                      /\ result'[d] = "aborted" => d \in aborted' /\ following'[d] = "cursor"
                      /\ Len(pages'[d]) <= MaxPages
                      /\ result'[d] = "none" => following'[d] = "cursor" /\ cursor'[d] = Len(pages'[d]) + 1
                                                  /\ Len(pages'[d]) < MaxPages
    BY DEF PageInv, PagesAreAccountedFor
  <2>1. CASE d = c
    <3>1. pages'[d] = [i \in 1..Len(pages'[d]) |-> i] /\ Len(pages'[d]) = n + 1 /\ n + 1 <= MaxPages
      <4>1. pages'[d] = [i \in 1..(n + 1) |-> i] /\ Len(pages'[d]) = n + 1
        BY <1>3, <2>1
      <4>2. n + 1 <= MaxPages
        BY <1>1
      <4> QED
        BY <4>1, <4>2
    <3>2. /\ result'[d] = PageResult(n + 1, next)
          /\ following'[d] = IF result'[d] = "pageLimit" THEN "cursor" ELSE next
          /\ cursor'[d] = IF result'[d] = "none" THEN n + 2 ELSE n + 1
      BY <1>1, <1>2, <1>3, <2>1 DEF IInv, TypeOK
    <3>3. CASE n + 1 = MaxPages
      <4>1. result'[d] = "pageLimit"
        BY <1>1, <3>2, <3>3 DEF PageResult
      <4> QED
        BY <3>1, <3>3, <4>1
    <3>4. CASE n + 1 < MaxPages
      <4>1. result'[d] = IF next # "cursor" THEN "complete" ELSE "none"
        BY <1>1, <3>2, <3>4 DEF PageResult
      <4>2. Len(pages'[d]) < MaxPages /\ Len(pages'[d]) # MaxPages
        BY <1>1, <3>1, <3>4
      <4>3. CASE next = "cursor"
        <5>1. result'[d] = "none" /\ following'[d] = "cursor" /\ cursor'[d] = Len(pages'[d]) + 1
          BY <1>1, <3>1, <3>2, <4>1, <4>3
        <5> QED
          BY <3>1, <4>2, <5>1
      <4>4. CASE next # "cursor"
        <5>1. result'[d] = "complete" /\ following'[d] = next
          BY <3>2, <4>1, <4>4
        <5> QED
          BY <3>1, <4>2, <4>4, <5>1
      <4> QED
        BY <4>3, <4>4
    <3> QED
      BY <1>1, <3>1, <3>3, <3>4
  <2>2. CASE d # c
    <3>1. /\ pages'[d] = pages[d] /\ result'[d] = result[d] /\ following'[d] = following[d]
          /\ cursor'[d] = cursor[d] /\ aborted' = aborted
      BY <1>2, <2>2 DEF IInv, TypeOK
    <3> QED
      BY <3>1 DEF IInv, PageInv, PagesAreAccountedFor
  <2> QED
    BY <2>1, <2>2
<1> QED
  BY <1>4, <1>5, <1>6 DEF Kept, IInv

-----------------------------------------------------------------------------
(* Theorems *)

LEMMA CallerKeeps ==
  ASSUME IInv, NEW c \in Callers, CallerStep(c)
  PROVE  IInv' /\ (Bucket!Grant \/ UNCHANGED <<ideal, forwards>>)
<1>1. CASE Ask(c)
  <2>1. aborted' = aborted
    BY <1>1 DEF Ask, RequestStep, Start, Admit, Send, Respond, Lose, Notified, Resume, AbortWakes
  <2> QED
    BY <1>1, <2>1, RequestKeeps, PagersStay DEF Ask
<1>2. CASE Fail(c)
  BY <1>2, ReturnKeeps, ResultKeeps DEF Fail, Answered, Return, Result, limiterVars
<1>3. CASE Finish(c)
  BY <1>3, ReturnKeeps, ResultKeeps DEF Finish, Answered, Return, Result, limiterVars
<1>4. ASSUME NEW next \in Following, TurnPage(c, next) PROVE IInv' /\ UNCHANGED <<ideal, forwards>>
  BY <1>4, TurnPageKeeps DEF TurnPage, Return, limiterVars
<1>5. CASE EndAborted(c)
  BY <1>5, SettledKeeps, ResultKeeps DEF EndAborted, Result, callVars, limiterVars
<1> QED
  BY <1>1, <1>2, <1>3, <1>4, <1>5 DEF CallerStep

LEMMA Inductive ==
  ASSUME IInv, [Next]_vars
  PROVE  IInv' /\ [Bucket!Next]_<<ideal, forwards>>
<1>1. ASSUME NEW c \in Callers, CallerStep(c) PROVE IInv' /\ [Bucket!Next]_<<ideal, forwards>>
  BY <1>1, CallerKeeps DEF Bucket!Next
<1>2. ASSUME NEW c \in Callers, Process(c) \/ Abort(c), UNCHANGED pagerVars
      PROVE  IInv' /\ [Bucket!Next]_<<ideal, forwards>>
  BY <1>2, ProcessKeeps, AbortKeeps, PagersStay DEF Process, Abort, limiterVars
<1>3. ASSUME Tick \/ ClockIsSet, UNCHANGED pagerVars PROVE IInv' /\ [Bucket!Next]_<<ideal, forwards>>
  <2>1. aborted' = aborted
    BY <1>3 DEF Tick, ClockIsSet, callVars
  <2> QED
    BY <1>3, <2>1, TimeKeeps, PagersStay DEF Bucket!Next
<1>4. CASE UNCHANGED vars
  BY <1>4, SettledKeeps, PagersStay DEF vars, callVars, limiterVars
<1> QED
  BY <1>1, <1>2, <1>3, <1>4 DEF Next

LEMMA Invariance == Spec => []IInv
<1> QED
  BY InitHolds, Inductive, PTL DEF Spec

\* Attempts, tokens and types agree: no attempt without an admission, no admission lost but
\* to an abort, at most Retries + 1 attempts, whatever the callbacks throw
\* (reliableTransport.ts, request).
THEOREM Attempts == Spec => []AttemptsAreCounted
<1>1. IInv => AttemptsAreCounted
  <2> SUFFICES ASSUME IInv, NEW c \in Callers
               PROVE  /\ attempt[c] <= Retries + 1
                      /\ taken[c] = attempt[c] + 1 \/ taken[c] = attempt[c]
                      /\ taken[c] > attempt[c] => phase[c] = "admitted" \/ c \in aborted
    BY DEF AttemptsAreCounted, EveryAttemptIsAdmitted, IInv
  <2>1. Counted(c) /\ attempt[c] \in 0..(Retries + 1)
    BY DEF IInv, CallInv, TypeOK, TransportTypeOK
  <2> QED
    BY <2>1, ReliableTransportAssumption DEF Counted
<1> QED
  BY <1>1, Invariance, PTL

\* Graph processes a POST once but for the reasons that its mode accepts (makeDefaultRetryOn):
\* while a POST may be sent again, no attempt of it has landed of which the caller was not told
\* something that lets it.
THEOREM OncePosted == Spec => []PostsLandOnce
<1>1. IInv => PostsLandOnce
  <2> SUFFICES ASSUME IInv, NEW c \in Callers PROVE Cardinality(landed[c]) <= 1
    BY DEF PostsLandOnce
  <2>1. landed[c] = {} \/ landed[c] = {attempt[c]}
    BY DEF IInv, CallInv, Landing
  <2>2. CASE landed[c] = {}
    BY <2>2, FS_EmptySet
  <2>3. CASE landed[c] = {attempt[c]}
    <3>1. Cardinality({attempt[c]}) = 1
      BY FS_Singleton
    <3> QED
      BY <2>3, <3>1
  <2> QED
    BY <2>1, <2>2, <2>3
<1> QED
  BY <1>1, Invariance, PTL

\* A page loop yields each page once and in order, and its result says why it ended: at the
\* limit, by an abort, or at a page that had no next which could be asked for (paginate).
THEOREM Pages == Spec => []PagesAreAccountedFor
<1>1. IInv => PagesAreAccountedFor
  BY DEF IInv, PageInv
<1> QED
  BY <1>1, Invariance, PTL

\* The limiter grants no more than a bucket that fills with the time that has passed, on
\* credit of what the wall clock was set forward (createTokenBucketRateLimiter).
THEOREM Refinement == Spec => ImplementsTokenBucket
<1>1. Init => Bucket!Init
  BY DEF Init, TransportInit, LimiterInit, Bucket!Init
<1> QED
  BY <1>1, Invariance, Inductive, PTL DEF Spec, ImplementsTokenBucket, Bucket!Spec

\* A caller that has aborted takes no token and starts no attempt (throwIfAborted).
THEOREM Aborts == Spec => AbortStops
<1> DEFINE Quiet == \A c \in aborted : ~ (taken'[c] > taken[c] \/ attempt'[c] > attempt[c])
<1>1. TransportTypeOK /\ [Next]_vars => [Quiet]_vars
  <2> SUFFICES ASSUME TransportTypeOK, [Next]_vars, NEW c \in aborted
               PROVE  ~ (taken'[c] > taken[c]) /\ ~ (attempt'[c] > attempt[c])
    OBVIOUS
  <2>1. taken[c] \in Int /\ attempt[c] \in Int /\ c \in Callers
    BY ReliableTransportAssumption DEF TransportTypeOK
  <2>2. ASSUME NEW d \in Callers, CallerStep(d)
        PROVE  taken'[c] \in {taken[c], 0} /\ attempt'[c] \in {attempt[c], 0}
    <3>1. CASE Admit(d)
      BY <2>1, <3>1 DEF Admit, TransportTypeOK
    <3>2. CASE Send(d)
      BY <2>1, <3>2 DEF Send, TransportTypeOK
    <3>3. CASE RequestStep(d) /\ ~ Admit(d) /\ ~ Send(d)
      BY <3>3 DEF RequestStep, Start, Respond, Lose, Notified, Resume, AbortWakes
    <3>4. CASE EndAborted(d)
      BY <3>4 DEF EndAborted, callVars, requestVars
    <3>5. CASE Return(d)
      BY <2>1, <3>5 DEF Return, TransportTypeOK
    <3> QED
      BY <2>2, <3>1, <3>2, <3>3, <3>4, <3>5 DEF CallerStep, Ask, Fail, Finish, TurnPage
  <2>3. CASE \E d \in Callers : Process(d) \/ Abort(d)
    BY <2>1, <2>3 DEF Process, Abort, requestVars
  <2>4. CASE Tick \/ ClockIsSet \/ UNCHANGED vars
    BY <2>1, <2>4 DEF Tick, ClockIsSet, vars, callVars, requestVars
  <2>5. 0 <= taken[c] /\ 0 <= attempt[c]
    BY <2>1, ReliableTransportAssumption DEF TransportTypeOK
  <2> QED
    BY <2>1, <2>2, <2>3, <2>4, <2>5 DEF Next
<1>2. IInv => TransportTypeOK
  BY DEF IInv, TypeOK
<1> QED
  BY <1>1, <1>2, Invariance, PTL DEF Spec, AbortStops

-----------------------------------------------------------------------------
(* The end of an aborted call *)

\* The phases from which an aborted request settles at its next step.
Ending == {"admitting", "throttled", "admitted", "inFlight", "notifyResponse", "notifyError"}

\* Where a request stands, or that its caller has its result.
Stands(c, phases) == result[c] = "none" /\ phase[c] \in phases

\* What a step of an aborted caller leads to.
LEMMA AbortedStep ==
  ASSUME NEW c \in Callers, IInv, c \in aborted, result[c] = "none", CallerStep(c)
  PROVE  /\ phase[c] = "backoff" => Stands(c, {"admitting", "settled"})'
         /\ phase[c] \in Ending => Stands(c, {"settled"})'
         /\ phase[c] = "settled" /\ c \in Pagers => (result[c] # "none")' \/ Stands(c, {"idle"})'
         /\ phase[c] = "settled" /\ c \notin Pagers => (result[c] # "none")'
         /\ phase[c] = "idle" /\ c \in Pagers => (result[c] # "none")'
         /\ phase[c] = "idle" /\ c \notin Pagers => Stands(c, {"admitting"})'
<1> DEFINE Goal ==
      /\ phase[c] = "backoff" => Stands(c, {"admitting", "settled"})'
      /\ phase[c] \in Ending => Stands(c, {"settled"})'
      /\ phase[c] = "settled" /\ c \in Pagers => (result[c] # "none")' \/ Stands(c, {"idle"})'
      /\ phase[c] = "settled" /\ c \notin Pagers => (result[c] # "none")'
      /\ phase[c] = "idle" /\ c \in Pagers => (result[c] # "none")'
      /\ phase[c] = "idle" /\ c \notin Pagers => Stands(c, {"admitting"})'
<1>1. phase \in [Callers -> Phase] /\ result \in [Callers -> Result]
  BY DEF IInv, TypeOK, TransportTypeOK
<1>2. ASSUME Ask(c), Start(c) PROVE Goal
  BY <1>1, <1>2 DEF Ask, Start, Goes, Stands, Ending, pagerVars
<1>3. ASSUME Ask(c), Admit(c) PROVE Goal
  BY <1>1, <1>3 DEF Ask, Admit, Settle, Goes, Stands, Ending, pagerVars
<1>4. ASSUME Ask(c), Send(c) PROVE Goal
  BY <1>1, <1>4 DEF Ask, Send, Settle, Goes, Stands, Ending, pagerVars
<1>5. ASSUME Ask(c), NEW what \in {"ok", "busy", "failed"}, Respond(c, what) PROVE Goal
  BY <1>1, <1>5 DEF Ask, Respond, Settle, Goes, Stands, Ending, pagerVars
<1>6. ASSUME Ask(c), Lose(c) PROVE Goal
  BY <1>1, <1>6 DEF Ask, Lose, Catch, Settle, Goes, Stands, Ending, pagerVars
<1>7. ASSUME Ask(c), NEW how \in {"ok", "network", "thrown"}, Notified(c, how) PROVE Goal
  BY <1>1, <1>7 DEF Ask, Notified, Catch, Settle, Goes, Stands, Ending, pagerVars
<1>8. ASSUME Ask(c), Resume(c) \/ AbortWakes(c) PROVE Goal
  BY <1>1, <1>8 DEF Ask, Resume, AbortWakes, Settle, Goes, Stands, Ending, pagerVars
<1>9. ASSUME Fail(c) \/ Finish(c) \/ EndAborted(c) PROVE Goal
  BY <1>1, <1>9 DEF Fail, Finish, EndAborted, Answered, Ending
<1>10. ASSUME NEW next \in Following, TurnPage(c, next) PROVE Goal
  <2>1. phase[c] = "settled" /\ c \in Pagers
    BY <1>10 DEF TurnPage, Answered
  <2>2. phase'[c] = "idle"
    BY <1>1, <1>10 DEF TurnPage, Return
  <2> QED
    BY <2>1, <2>2 DEF Stands, Ending
<1> HIDE DEF Goal
<1>11. Goal
  BY <1>2, <1>3, <1>4, <1>5, <1>6, <1>7, <1>8, <1>9, <1>10 DEF CallerStep, RequestStep, Ask
<1> QED
  BY <1>11 DEF Goal

\* Nobody else moves a call.
LEMMA OnlyItsCallerMoves ==
  ASSUME NEW c \in Callers, IInv, [Next]_vars
  PROVE  CallerStep(c) \/ (phase'[c] = phase[c] /\ result'[c] = result[c])
<1>1. phase \in [Callers -> Phase] /\ result \in [Callers -> Result]
  BY DEF IInv, TypeOK, TransportTypeOK
<1>2. ASSUME NEW d \in Callers, d # c, CallerStep(d)
      PROVE  phase'[c] = phase[c] /\ result'[c] = result[c]
  <2>1. CASE Ask(d)
    BY <1>1, <1>2, <2>1 DEF Ask, RequestStep, Start, Admit, Send, Respond, Lose, Notified, Catch, Resume,
         AbortWakes, Settle, Goes, pagerVars
  <2>2. CASE Fail(d) \/ Finish(d) \/ EndAborted(d)
    BY <1>1, <1>2, <2>2 DEF Fail, Finish, EndAborted, Return, callVars, requestVars
  <2>3. ASSUME NEW next \in Following, TurnPage(d, next)
        PROVE  phase'[c] = phase[c] /\ result'[c] = result[c]
    BY <1>1, <1>2, <2>3 DEF TurnPage, Return
  <2> QED
    BY <1>2, <2>1, <2>2, <2>3 DEF CallerStep
<1>3. CASE \E d \in Callers : (Process(d) \/ Abort(d)) /\ UNCHANGED pagerVars
  BY <1>3 DEF Process, Abort, requestVars, pagerVars
<1>4. CASE (Tick \/ ClockIsSet) /\ UNCHANGED pagerVars
  BY <1>4 DEF Tick, ClockIsSet, callVars, requestVars, pagerVars
<1>5. CASE UNCHANGED vars
  BY <1>5 DEF vars, callVars, requestVars, pagerVars
<1> QED
  BY <1>2, <1>3, <1>4, <1>5 DEF Next

LEMMA AbortsStay ==
  ASSUME NEW c \in aborted, [Next]_vars
  PROVE  c \in aborted'
BY DEF Next, CallerStep, Ask, RequestStep, Start, Admit, Send, Respond, Lose, Notified, Resume, AbortWakes,
       Fail, Finish, TurnPage, Return, EndAborted, Process, Abort, Tick, ClockIsSet, callVars, vars

LEMMA AbortEnds ==
  ASSUME NEW c \in Callers
  PROVE  Spec /\ CallersMove => (c \in aborted ~> result[c] # "none")
<1> DEFINE Aborted == c \in aborted
           Ended == result[c] # "none"
           Backoff == Stands(c, {"backoff"})
           End == Stands(c, Ending)
           Settled == Stands(c, {"settled"})
           Idle == Stands(c, {"idle"})
<1>1. Spec /\ CallersMove => Moves(c)
  <2>1. CallersMove => Moves(c)
    BY DEF CallersMove
  <2> QED
    BY <2>1, PTL
<1>2. Aborted => ~Sleeps(c)
  BY DEF Sleeps
<1>3. IInv => Ended \/ Backoff \/ End \/ Settled \/ Idle
  <2>1. IInv => phase[c] \in Phase
    BY DEF IInv, TypeOK, TransportTypeOK
  <2> QED
    BY <2>1 DEF Stands, Ending, Phase
<1>4. Aborted /\ [Next]_vars => Aborted'
  BY AbortsStay
<1>5. IInv /\ [Next]_vars =>
        \/ CallerStep(c)
        \/ (Backoff => Backoff') /\ (End => End') /\ (Settled => Settled') /\ (Idle => Idle') /\ (Ended => Ended')
  BY OnlyItsCallerMoves DEF Stands
<1>6. IInv /\ Aborted /\ CallerStep(c) =>
        /\ Backoff => End' \/ Settled'
        /\ End => Settled'
  BY AbortedStep DEF Stands, Ending
<1>7. ~(Backoff /\ (End \/ Settled \/ Idle)) /\ ~(End /\ (Settled \/ Idle)) /\ ~(Settled /\ Idle)
  BY DEF Stands, Ending
<1>8. CASE c \in Pagers
  <2>1. IInv /\ Aborted /\ CallerStep(c) => (Settled => Ended' \/ Idle') /\ (Idle => Ended')
    BY <1>8, AbortedStep DEF Stands
  <2> QED
    BY <1>1, <1>2, <1>3, <1>4, <1>5, <1>6, <1>7, <2>1, Invariance, PTL DEF Spec, Moves
<1>9. CASE c \notin Pagers
  <2>1. IInv /\ Aborted /\ CallerStep(c) => (Settled => Ended') /\ (Idle => End')
    BY <1>9, AbortedStep DEF Stands, Ending
  <2> QED
    BY <1>1, <1>2, <1>3, <1>4, <1>5, <1>6, <1>7, <2>1, Invariance, PTL DEF Spec, Moves
<1> QED
  BY <1>8, <1>9

\* A caller that aborts its signal has its result in the end, wherever the abort finds it: no
\* sleep of the limiter and no backoff is waited for, and time need not pass (sleepWithAbort).
THEOREM AbortsAreHeard ==
  Spec /\ CallersMove => \A c \in Callers : (c \in aborted ~> result[c] # "none")
BY AbortEnds

=============================================================================
