--------------------------- MODULE ReliableTransport ---------------------------
(***************************************************************************)
(* createReliableTransport: every attempt of a request is admitted by the  *)
(* rate limiter, answers and errors are retried as the default retryOn and *)
(* retryPosts say, after a delay of any length, and the caller may abort   *)
(* at any time.  The callbacks jitter and onRetry are the user's: they may *)
(* throw, a GraphNetworkError too.  Graph is external: it may process a    *)
(* request whose answer is lost or says that it failed.                    *)
(***************************************************************************)
EXTENDS RateLimiter, FiniteSets

CONSTANTS
  Callers,    \* users of the client, each with one request at a time
  Retries     \* policy.retries

ASSUME ReliableTransportAssumption == Retries \in Nat

VARIABLES
  retryPosts,  \* the mode of the transport
  kind,        \* for a caller, "get" for GET and DELETE, "post", or "keyedPost" with an Idempotency-Key
  phase,       \* where the request of a caller stands
  attempt,     \* how many attempts it has begun
  wait,        \* ticks until its sleep in the limiter ends
  outcome,     \* what it settled with
  aborted,     \* the callers whose signal has been aborted
  taken,       \* history: tokens taken for the request
  landed       \* history: the attempts of a POST that Graph has processed, save those of which
               \* the caller was told what lets it send the request again (MayRepeat)

requestVars == <<phase, attempt, wait, outcome, taken, landed>>
callVars == <<retryPosts, kind, requestVars, aborted>>

Phase == {"idle", "admitting", "throttled", "admitted", "inFlight",
          "notifyResponse", "notifyError", "backoff", "settled"}
Outcome == {"none", "ok", "error"}

TransportTypeOK ==
  /\ LimiterTypeOK
  /\ retryPosts \in {"never", "network-only", "always"}
  /\ kind \in [Callers -> {"get", "post", "keyedPost"}]
  /\ phase \in [Callers -> Phase]
  /\ attempt \in [Callers -> 0..(Retries + 1)]
  /\ wait \in [Callers -> 0..Token]
  /\ outcome \in [Callers -> Outcome]
  /\ aborted \subseteq Callers
  /\ taken \in [Callers -> 0..(Retries + 2)]
  /\ landed \in [Callers -> SUBSET (1..(Retries + 1))]

TransportInit ==
  /\ LimiterInit
  /\ retryPosts \in {"never", "network-only", "always"}
  /\ phase = [c \in Callers |-> "idle"]
  /\ attempt = [c \in Callers |-> 0]
  /\ wait = [c \in Callers |-> 0]
  /\ outcome = [c \in Callers |-> "none"]
  /\ aborted = {}
  /\ taken = [c \in Callers |-> 0]
  /\ landed = [c \in Callers |-> {}]

\* Slip: a POST whose answer is lost is retried without a key.
RetriesAnyPost(c, what) ==
  \/ what = "busy"
  \/ what = "network" /\ (kind[c] = "get" \/ retryPosts # "never")
  \/ what = "failed" /\ (kind[c] = "get" \/ retryPosts = "always")

\* makeDefaultRetryOn: 429, a GraphNetworkError, a 5xx; other errors are not retried.
RetryOn(c, what) ==
  \/ what = "busy"
  \/ what = "network" /\ (kind[c] = "get" \/ (kind[c] = "keyedPost" /\ retryPosts # "never"))
  \/ what = "failed" /\ (kind[c] = "get" \/ retryPosts = "always")

\* Slip: one attempt too many.
OneMore(c, what) == RetryOn(c, what) /\ attempt[c] <= Retries + 1

\* shouldRetry && attempt <= policy.retries
MayRetry(c, what) == RetryOn(c, what) /\ attempt[c] <= Retries

Goes(c, to) == phase' = [phase EXCEPT ![c] = to]
Settle(c, how) == Goes(c, "settled") /\ outcome' = [outcome EXCEPT ![c] = how]

\* request() is called.
Start(c) ==
  /\ phase[c] = "idle"
  /\ Goes(c, "admitting")
  /\ UNCHANGED <<limiterVars, retryPosts, kind, attempt, wait, outcome, aborted, taken, landed>>

\* Slip: the limiter does not look at the signal again when its sleep is over.
AdmitUnseen(c) ==
  /\ phase[c] = "admitting" \/ (phase[c] = "throttled" /\ wait[c] = 0)
  /\ \/ /\ c \in aborted /\ phase[c] = "admitting"
        /\ Settle(c, "error")
        /\ UNCHANGED <<limiterVars, wait, taken>>
     \/ /\ Take
        /\ Goes(c, "admitted")
        /\ taken' = [taken EXCEPT ![c] = @ + 1]
        /\ UNCHANGED <<wait, outcome>>
     \/ /\ MissToken
        /\ Goes(c, "throttled")
        /\ wait' = [wait EXCEPT ![c] = Missing]
        /\ UNCHANGED <<outcome, taken>>
  /\ UNCHANGED <<retryPosts, kind, attempt, aborted, landed>>

\* The top of the loop, and of the limiter's own after a sleep: an aborted caller leaves
\* without a token, others take one or sleep.
Admit(c) ==
  /\ phase[c] = "admitting" \/ (phase[c] = "throttled" /\ wait[c] = 0)
  /\ \/ /\ c \in aborted
        /\ Settle(c, "error")
        /\ UNCHANGED <<limiterVars, wait, taken>>
     \/ /\ c \notin aborted
        /\ Take
        /\ Goes(c, "admitted")
        /\ taken' = [taken EXCEPT ![c] = @ + 1]
        /\ UNCHANGED <<wait, outcome>>
     \/ /\ c \notin aborted
        /\ MissToken
        /\ Goes(c, "throttled")
        /\ wait' = [wait EXCEPT ![c] = Missing]
        /\ UNCHANGED <<outcome, taken>>
  /\ UNCHANGED <<retryPosts, kind, attempt, aborted, landed>>

\* acquire() has resolved: unless the caller aborted meanwhile, the attempt begins.
Send(c) ==
  /\ phase[c] = "admitted"
  /\ \/ /\ c \in aborted
        /\ Settle(c, "error")
        /\ UNCHANGED attempt
     \/ /\ c \notin aborted
        /\ Goes(c, "inFlight")
        /\ attempt' = [attempt EXCEPT ![c] = @ + 1]
        /\ UNCHANGED outcome
  /\ UNCHANGED <<limiterVars, retryPosts, kind, wait, aborted, taken, landed>>

\* What lets a POST be sent again although Graph may have processed it: a 429 in any mode;
\* no response, with a key and unless the mode is "never"; a 5xx in "always".
MayRepeat(c) ==
  {"busy"} \cup (IF kind[c] = "keyedPost" /\ retryPosts # "never" THEN {"network"} ELSE {})
           \cup (IF retryPosts = "always" THEN {"failed"} ELSE {})

\* The client is told something of its attempt, which Graph may have processed.
Hear(c, what) ==
  landed' = IF what \in MayRepeat(c) THEN [landed EXCEPT ![c] = @ \ {attempt[c]}] ELSE landed

\* A response arrives; "ok" stands for every status but 429 and 5xx, and a response
\* of these that is not retried is an error to the client.
Respond(c, what) ==
  /\ phase[c] = "inFlight"
  /\ Hear(c, what)
  /\ \/ ~ MayRetry(c, what) /\ Settle(c, IF what = "ok" THEN "ok" ELSE "error")
     \/ MayRetry(c, what) /\ c \in aborted /\ Settle(c, "error")
     \/ MayRetry(c, what) /\ c \notin aborted /\ Goes(c, "notifyResponse") /\ UNCHANGED outcome
  /\ UNCHANGED <<limiterVars, retryPosts, kind, attempt, wait, aborted, taken>>

\* Graph processes a POST, whatever comes back of it, a 429 too.
Process(c) ==
  /\ phase[c] = "inFlight" /\ kind[c] # "get"
  /\ attempt[c] \notin landed[c]
  /\ landed' = [landed EXCEPT ![c] = @ \cup {attempt[c]}]
  /\ UNCHANGED <<limiterVars, retryPosts, kind, phase, attempt, wait, outcome, aborted, taken>>

\* The catch block.
Catch(c, what) ==
  \/ (c \in aborted \/ ~ MayRetry(c, what)) /\ Settle(c, "error")
  \/ c \notin aborted /\ MayRetry(c, what) /\ Goes(c, "notifyError") /\ UNCHANGED outcome

\* The attempt fails without a response: the network, its timeout, or the abort.
Lose(c) ==
  /\ phase[c] = "inFlight"
  /\ Catch(c, "network")
  /\ Hear(c, "network")
  /\ UNCHANGED <<limiterVars, retryPosts, kind, attempt, wait, aborted, taken>>

\* The delay is computed and onRetry has settled: the backoff begins, or what was thrown
\* in the try block reaches its catch and what was thrown there leaves the function.
Notified(c, how) ==
  /\ phase[c] \in {"notifyResponse", "notifyError"}
  /\ \/ /\ how = "ok" /\ c \notin aborted
        /\ Goes(c, "backoff")
        /\ UNCHANGED outcome
     \/ /\ how = "ok" /\ c \in aborted
        /\ Settle(c, "error")
     \/ /\ how # "ok"
        /\ IF phase[c] = "notifyResponse" THEN Catch(c, how) ELSE Settle(c, "error")
  /\ UNCHANGED <<limiterVars, retryPosts, kind, attempt, wait, aborted, taken, landed>>

\* sleepWithAbort: the sleep is over, or the abort ends it, as it does the limiter's.
Resume(c) ==
  /\ phase[c] = "backoff"
  /\ Goes(c, "admitting")
  /\ UNCHANGED <<limiterVars, retryPosts, kind, attempt, wait, outcome, aborted, taken, landed>>

AbortWakes(c) ==
  /\ phase[c] \in {"throttled", "backoff"}
  /\ c \in aborted
  /\ Settle(c, "error")
  /\ wait' = [wait EXCEPT ![c] = 0]
  /\ UNCHANGED <<limiterVars, retryPosts, kind, attempt, aborted, taken, landed>>

RequestStep(c) ==
  \/ Start(c) \/ Admit(c) \/ Send(c)
  \/ \E what \in {"ok", "busy", "failed"} : Respond(c, what)
  \/ Lose(c)
  \/ \E how \in {"ok", "network", "thrown"} : Notified(c, how)
  \/ Resume(c) \/ AbortWakes(c)

\* The caller aborts its signal.
Abort(c) ==
  /\ c \notin aborted
  /\ aborted' = aborted \cup {c}
  /\ UNCHANGED <<limiterVars, retryPosts, kind, requestVars>>

\* Time passes for the bucket and for those who sleep.
Tick ==
  /\ ClockTick
  /\ wait' = [c \in Callers |-> IF wait[c] > 0 THEN wait[c] - 1 ELSE 0]
  /\ UNCHANGED <<retryPosts, kind, phase, attempt, outcome, aborted, taken, landed>>

\* The wall clock is set; timers do not follow it.
ClockIsSet == (ClockStepsBack \/ ClockStepsForward) /\ UNCHANGED callVars
=============================================================================
