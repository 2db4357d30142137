------------------------------- MODULE Pagination -------------------------------
(***************************************************************************)
(* The callers of the Graph client: a page loop asks for one page after    *)
(* another, each by a request of its own, and yields the items of a page   *)
(* before it asks for the next; other callers make one request.  All of    *)
(* them share the transport, its limiter and the modes of its retries.     *)
(***************************************************************************)
EXTENDS ReliableTransport, Sequences

CONSTANTS
  Pagers,     \* the callers that paginate
  MaxPages    \* opts.maxPages

ASSUME PaginationAssumption ==
  /\ Pagers \subseteq Callers
  /\ MaxPages \in Nat \ {0}

VARIABLES
  cursor,     \* the page that the next request asks for
  following,  \* the next of the last page that was asked for it: with a cursor, without, or none
  pages,      \* pagesConsumed, and which pages they were
  result      \* what the caller was given in the end

pagerVars == <<cursor, following, pages, result>>
vars == <<limiterVars, callVars, pagerVars>>

Result == {"none", "complete", "pageLimit", "aborted", "failed"}
Following == {"cursor", "uncursored", "nothing"}

TypeOK ==
  /\ TransportTypeOK
  /\ cursor \in [Callers -> Nat]
  /\ following \in [Callers -> Following]
  /\ pages \in [Callers -> Seq(Nat)]
  /\ result \in [Callers -> Result]

Init ==
  /\ TransportInit
  /\ kind \in [Callers -> {"get", "post", "keyedPost"}]
  /\ \A c \in Callers : kind[c] = "get" <=> c \in Pagers
  /\ cursor = [c \in Callers |-> 1]
  /\ following = [c \in Callers |-> "cursor"]
  /\ pages = [c \in Callers |-> <<>>]
  /\ result = [c \in Callers |-> "none"]

\* client.request(): a response that is no success, or whose body breaks off, is an error.
Answered(c) == phase[c] = "settled" /\ result[c] = "none"

\* request() returns, and its locals are gone.
Return(c) ==
  /\ phase' = [phase EXCEPT ![c] = "idle"]
  /\ attempt' = [attempt EXCEPT ![c] = 0]
  /\ outcome' = [outcome EXCEPT ![c] = "none"]
  /\ taken' = [taken EXCEPT ![c] = 0]
  /\ landed' = [landed EXCEPT ![c] = {}]
  /\ UNCHANGED <<limiterVars, retryPosts, kind, wait, aborted>>

Fail(c) ==
  /\ Answered(c)
  /\ Return(c)
  /\ result' = [result EXCEPT ![c] = "failed"]
  /\ UNCHANGED <<cursor, following, pages>>

\* The one request of a caller that does not paginate has succeeded.
Finish(c) ==
  /\ Answered(c) /\ outcome[c] = "ok"
  /\ c \notin Pagers
  /\ Return(c)
  /\ result' = [result EXCEPT ![c] = "complete"]
  /\ UNCHANGED <<cursor, following, pages>>

\* Slip: the limit passes for the end.
PageResultWithoutLimit(n, next) == IF n >= MaxPages \/ next # "cursor" THEN "complete" ELSE "none"

\* The limit is tested before the page is asked for its next; a next without a cursor ends
\* the loop as none does, although there are pages that it announces.
PageResult(n, next) ==
  IF n >= MaxPages THEN "pageLimit" ELSE IF next # "cursor" THEN "complete" ELSE "none"

\* A page has arrived and its items are yielded; a cursor is taken over for the next request.
TurnPage(c, next) ==
  /\ Answered(c) /\ outcome[c] = "ok"
  /\ c \in Pagers
  /\ pages' = [pages EXCEPT ![c] = Append(@, cursor[c])]
  /\ result' = [result EXCEPT ![c] = PageResult(Len(pages'[c]), next)]
  /\ following' = [following EXCEPT ![c] = IF result'[c] = "pageLimit" THEN @ ELSE next]
  /\ cursor' = [cursor EXCEPT ![c] = IF result'[c] = "none" THEN @ + 1 ELSE @]
  /\ Return(c)

\* The signal is aborted between pages: the loop ends before it asks for another.
EndAborted(c) ==
  /\ c \in Pagers \cap aborted
  /\ phase[c] = "idle" /\ result[c] = "none"
  /\ result' = [result EXCEPT ![c] = "aborted"]
  /\ UNCHANGED <<limiterVars, callVars, cursor, following, pages>>

\* A page loop looks at its signal before it asks for a page.
Ask(c) ==
  /\ RequestStep(c)
  /\ phase[c] = "idle" => result[c] = "none" /\ c \notin Pagers \cap aborted
  /\ UNCHANGED pagerVars

CallerStep(c) ==
  \/ Ask(c) \/ Fail(c) \/ Finish(c)
  \/ \E next \in Following : TurnPage(c, next)
  \/ EndAborted(c)

Next ==
  \/ \E c \in Callers : CallerStep(c)
  \/ \E c \in Callers : (Process(c) \/ (Abort(c) /\ result[c] = "none")) /\ UNCHANGED pagerVars
  \/ Tick /\ UNCHANGED pagerVars
  \/ ClockIsSet /\ UNCHANGED pagerVars

\* Weak fairness of CallerStep(c), which is enabled until c has its result, save during its
\* sleep in the limiter, and only then.
Sleeps(c) == phase[c] = "throttled" /\ wait[c] > 0 /\ c \notin aborted
Moves(c) == []<>(result[c] # "none" \/ Sleeps(c)) \/ []<><<CallerStep(c)>>_vars

\* Every attempt is answered or times out, callbacks settle, and callers take the items of
\* their pages; and time passes.
CallersMove == \A c \in Callers : Moves(c)
Fairness == CallersMove /\ WF_vars(Tick /\ UNCHANGED pagerVars)

Spec == Init /\ [][Next]_vars
FairSpec == Spec /\ Fairness

----------------------------------------------------------------------------
(* Safety. *)

\* No attempt is sent that was not admitted, retries included, and no admission is lost
\* but to an abort; there are at most Retries + 1, also when onRetry throws what looks
\* like an error of the network (reliableTransport.ts, the catch around its own try).
EveryAttemptIsAdmitted ==
  \A c \in Callers :
    /\ attempt[c] <= Retries + 1
    /\ taken[c] = attempt[c] + 1 \/ taken[c] = attempt[c]
    /\ taken[c] > attempt[c] => phase[c] = "admitted" \/ c \in aborted

\* Attempts, tokens and types agree.
AttemptsAreCounted == TypeOK /\ EveryAttemptIsAdmitted

\* From the moment a caller aborts, its request takes no token from the bucket and starts
\* no attempt, wherever it stands: in the limiter's sleep, after its admission, in flight,
\* in onRetry or in the backoff.
AbortStops ==
  [][\A c \in aborted : ~ (taken'[c] > taken[c] \/ attempt'[c] > attempt[c])]_vars

\* Graph processes a POST once, but for what its mode accepts: it is sent again after an
\* attempt that Graph may have processed only for the reasons of MayRepeat, also when onRetry
\* throws what looks like an error of the network (retryPosts and makeDefaultRetryOn in
\* reliableTransport.ts).  A key by itself keeps Graph from nothing.
PostsLandOnce == \A c \in Callers : Cardinality(landed[c]) <= 1

\* What a page loop yields is a prefix of Graph's pages, each once and in order, however
\* often a fetch was retried, and its result says why it ended: at the page limit with
\* MaxPages pages; aborted when it was and there was a page to ask for; complete where a
\* page had no next to ask for.  That is the last page, or one whose next has no cursor:
\* the pages that follow it are lost, and the result does not tell (pagination.ts, 310).
PagesAreAccountedFor ==
  \A c \in Pagers :
    /\ pages[c] = [i \in 1..Len(pages[c]) |-> i]
    /\ result[c] = "pageLimit" <=> Len(pages[c]) = MaxPages
    /\ result[c] = "complete" => following[c] # "cursor"
    /\ result[c] = "aborted" => c \in aborted /\ following[c] = "cursor"
    /\ Len(pages[c]) <= MaxPages

(* Liveness. *)

\* Every call settles: waiters that lose the race for a token sleep again and get theirs,
\* retries come to an end.
EveryCallSettles == \A c \in Callers : <>(result[c] # "none")
=============================================================================
