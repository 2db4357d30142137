---------------------------- MODULE WebhookIngress ----------------------------
(***************************************************************************)
(* POST /webhooks/whatsapp with a persistence store (handleWebhook of      *)
(* packages/service): the request passes the adapter's gate, or is        *)
(* answered at once; the updates of its envelope are                       *)
(* recorded in wats_webhook_events, projected, and dispatched to the       *)
(* application's handlers, each in a loop of its own.                      *)
(*                                                                         *)
(* A delivery is one envelope that Meta posts until it is answered 200;    *)
(* two deliveries may carry the same updates, at the same time, to any     *)
(* process.  The handler awaits the store or the application once per      *)
(* update and loop, which is where deliveries interleave.  left[d] is what *)
(* the current loop still has to go through.  An update is named by its    *)
(* dedup key; Keyless ones have none and are never recognised.             *)
(***************************************************************************)
EXTENDS Integers, Sequences, Functions, ConversationWindow, WebhookGate, WebhookNormalizer

CONSTANTS
  Delivery,
  Update,
  Keyless,       \* updates extractDedupKey has no key for
  Deep,          \* updates nested deeper than MAX_NESTED_DEPTH
  Message,       \* updates with a message of the customer
  Status,        \* updates with a status of a message sent to the customer
  Sent,          \* Sent[u]: the time of such an update, by Meta's clock
  Clock,         \* what the clocks of the processes may show
  Envelopes,     \* the envelopes Meta makes, see WebhookNormalizer
  Requests,      \* the requests that carry them, see WebhookGate
  MaxSetbacks    \* bound: faults of the store and of the processes

ASSUME WebhookAssumption ==
  /\ Keyless \subseteq Update /\ Deep \subseteq Update
  /\ Message \subseteq Update /\ Status \subseteq Update /\ Message \cap Status = {}
  /\ Clock \subseteq Int /\ \E slow, fast \in Clock : \A t \in Clock : slow <= t /\ t <= fast
  /\ Sent \in [Message \cup Status -> Int]
  /\ Update = Item \ Malformed
  /\ Envelopes \subseteq Seq(Entry) /\ Requests \subseteq Request
  /\ MaxSetbacks \in Nat

VARIABLES
  recorded,      \* keyed updates in wats_webhook_events
  stored,        \* stored[u]: times at which u is projected (see Projects)
  dispatched,    \* dispatched[u]: how often handlers were given u
  request,       \* request[d]: the request that carries the envelope
  stage,         \* stage[d]: "new", the loop d is in, or "done"
  envelope,      \* envelope[d]: what it carries
  body,          \* body[d]: the updates made of it
  left,          \* left[d]: see above
  toDispatch,    \* toDispatch[d], deduped[d]: the two lists of the handler
  deduped,
  dedupFailed,   \* dedupFailed[d]: the store failed while d recorded
  answer,        \* answer[d]: how d was answered
  receipt,       \* receipt[d]: the clock when d was received
  missed,        \* history: missed[d], what d could or would not project
  lost,          \* history: updates taken by a crash, or with a lost answer
  setbacks       \* history: setbacks so far

storeVars == <<recorded, stored>>
posted == <<request, envelope, body>>
lists == <<toDispatch, deduped>>
vars == <<storeVars, dispatched, posted, stage, left, lists, dedupFailed, answer,
          receipt, missed, lost, setbacks>>

None == 0
Refusal == Refused \cup {"payload_depth_exceeded"}
Keyed == Update \ Keyless
Projected == Message \cup Status

Init ==
  /\ recorded = {}
  /\ stored = [u \in Projected |-> {}]
  /\ dispatched = [u \in Update |-> 0]
  /\ request \in [Delivery -> Requests]
  /\ stage = [d \in Delivery |-> "new"]
  /\ envelope = [d \in Delivery |-> <<>>]
  /\ body = [d \in Delivery |-> <<>>]
  /\ left = [d \in Delivery |-> <<>>]
  /\ toDispatch = [d \in Delivery |-> <<>>]
  /\ deduped = [d \in Delivery |-> <<>>]
  /\ dedupFailed = [d \in Delivery |-> FALSE]
  /\ answer = [d \in Delivery |-> "none"]
  /\ receipt = [d \in Delivery |-> None]
  /\ missed = [d \in Delivery |-> {}]
  /\ lost = {}
  /\ setbacks = 0
-----------------------------------------------------------------------------
Setback ==
  /\ setbacks < MaxSetbacks
  /\ setbacks' = setbacks + 1

\* Delivery d has update u next in loop s, and goes on to the one after.
Takes(d, s, u) ==
  /\ stage[d] = s
  /\ left[d] # <<>>
  /\ u = Head(left[d])
  /\ left' = [left EXCEPT ![d] = Tail(@)]
  /\ UNCHANGED <<stage, posted, answer>>

\* Delivery d is through with loop s and enters loop t, over list.
Turns(d, s, t, list) ==
  /\ stage[d] = s
  /\ left[d] = <<>>
  /\ stage' = [stage EXCEPT ![d] = t]
  /\ left' = [left EXCEPT ![d] = list]
  /\ UNCHANGED <<storeVars, dispatched, posted, lists, dedupFailed, answer, missed,
                 lost, setbacks>>

\* The updates d has recorded and still has to hand to the application.
InHand(d) ==
  CASE stage[d] \in {"recording", "projecting"} -> Range(toDispatch[d]) \cap Keyed
    [] stage[d] = "dispatching" -> Range(left[d]) \cap Keyed
    [] OTHER -> {}
-----------------------------------------------------------------------------
\* isWithinDepthLimit, for all updates of an envelope.
WithinDepthLimit(b) == Range(b) \cap Deep = {}

\* What a delivery with envelope b is answered before anything is done.
AnswerTo(r, b) ==
  IF Verdict(r) = "accepted" /\ ~ WithinDepthLimit(b) THEN "payload_depth_exceeded" ELSE Verdict(r)

\* The request passes the gate of the adapter and its updates the depth gate,
\* or it is refused.
Post(d, e) ==
  LET b == Normalize(e).updates
  IN /\ stage[d] = "new"
     /\ envelope' = [envelope EXCEPT ![d] = e]
     /\ body' = [body EXCEPT ![d] = b]
     /\ IF AnswerTo(request[d], b) = "accepted"
        THEN /\ stage' = [stage EXCEPT ![d] = "recording"]
             /\ left' = [left EXCEPT ![d] = b]
             /\ UNCHANGED answer
        ELSE /\ stage' = [stage EXCEPT ![d] = "done"]
             /\ answer' = [answer EXCEPT ![d] = AnswerTo(request[d], b)]
             /\ UNCHANGED left
     /\ UNCHANGED <<storeVars, dispatched, request, lists, dedupFailed, receipt, missed, lost,
                    setbacks>>

\* Meta posts again what was not answered 200.
PostAgain(d) ==
  /\ answer[d] \in {"unavailable", "died"}
  /\ stage' = [stage EXCEPT ![d] = "recording"]
  /\ left' = [left EXCEPT ![d] = body[d]]
  /\ toDispatch' = [toDispatch EXCEPT ![d] = <<>>]
  /\ deduped' = [deduped EXCEPT ![d] = <<>>]
  /\ dedupFailed' = [dedupFailed EXCEPT ![d] = FALSE]
  /\ answer' = [answer EXCEPT ![d] = "none"]
  /\ missed' = [missed EXCEPT ![d] = {}]
  /\ UNCHANGED <<storeVars, dispatched, posted, receipt, lost, setbacks>>

\* recordWebhookEvent inserts the key or finds it; no key, nothing to record.
Record(d, u) ==
  /\ Takes(d, "recording", u)
  /\ IF u \in recorded
     THEN deduped' = [deduped EXCEPT ![d] = Append(@, u)] /\ UNCHANGED toDispatch
     ELSE toDispatch' = [toDispatch EXCEPT ![d] = Append(@, u)] /\ UNCHANGED deduped
  /\ recorded' = recorded \cup ({u} \cap Keyed)
  /\ UNCHANGED <<stored, dispatched, dedupFailed, receipt, missed, lost, setbacks>>

\* Slip: an update the store cannot tell about is dispatched all the same.
RecordThrowsOpen(d, u, commits) ==
  /\ u \in Keyed
  /\ Takes(d, "recording", u)
  /\ Setback
  /\ toDispatch' = [toDispatch EXCEPT ![d] = Append(@, u)]
  /\ recorded' = IF commits THEN recorded \cup {u} ELSE recorded
  /\ UNCHANGED <<stored, dispatched, deduped, dedupFailed, receipt, missed, lost>>

\* The store fails, having inserted the key (commits) or not: the loop ends.
RecordThrows(d, u, commits) ==
  /\ stage[d] = "recording"
  /\ left[d] # <<>> /\ u = Head(left[d]) /\ u \in Keyed
  /\ Setback
  /\ left' = [left EXCEPT ![d] = <<>>]
  /\ dedupFailed' = [dedupFailed EXCEPT ![d] = TRUE]
  /\ recorded' = IF commits THEN recorded \cup {u} ELSE recorded
  /\ lost' = IF commits THEN lost \cup ({u} \ recorded) ELSE lost
  /\ UNCHANGED <<stored, dispatched, stage, posted, lists, receipt, answer, missed>>

\* The clock of the process d was posted to.  The handler reads it when it
\* starts to record; what it showed is chosen here, where it is first used.
ReadsClock(d) == \E t \in Clock : receipt' = [receipt EXCEPT ![d] = t]

AllRecorded(d) ==
  /\ Turns(d, "recording", "projecting", toDispatch[d] \o deduped[d])
  /\ ReadsClock(d)

\* The times at which recordInboundProjection and recordStatusProjection
\* store an update received at time now: a message at its own time, once, or
\* not at all; a status once for every time it is found to have, which is
\* the receipt when its own cannot be used; an update of another kind never.
Projects(u, now) ==
  LET own == EventTimes(Sent[u], now)
  IN IF u \in Message
     THEN IF stored[u] = {} THEN own ELSE stored[u]
     ELSE stored[u] \cup IF own = {} THEN {now} ELSE own

Project(d, u) ==
  /\ Takes(d, "projecting", u)
  /\ IF u \in Projected
     THEN /\ stored' = [stored EXCEPT ![u] = Projects(u, receipt[d])]
          /\ missed' = [missed EXCEPT ![d] = IF stored'[u] = {} THEN @ \cup {u} ELSE @]
     ELSE UNCHANGED <<stored, missed>>
  /\ UNCHANGED <<recorded, dispatched, lists, dedupFailed, receipt, lost, setbacks>>

\* A projection that fails, stored or not, is logged and forgotten.
ProjectThrows(d, u, commits) ==
  /\ u \in Projected
  /\ Takes(d, "projecting", u)
  /\ Setback
  /\ stored' = IF commits THEN [stored EXCEPT ![u] = Projects(u, receipt[d])] ELSE stored
  /\ missed' = [missed EXCEPT ![d] = @ \cup {u}]
  /\ UNCHANGED <<recorded, dispatched, lists, dedupFailed, receipt, lost>>

AllProjected(d) ==
  /\ Turns(d, "projecting", "dispatching", toDispatch[d])
  /\ receipt' = [receipt EXCEPT ![d] = None]

\* Slip: a handler that throws is given the update again.
DispatchRetries(d, u) ==
  /\ stage[d] = "dispatching"
  /\ left[d] # <<>> /\ u = Head(left[d])
  /\ left' \in {left, [left EXCEPT ![d] = Tail(@)]}
  /\ dispatched' = [dispatched EXCEPT ![u] = @ + 1]
  /\ UNCHANGED <<storeVars, stage, posted, lists, dedupFailed, receipt, answer, missed, lost,
                 setbacks>>

\* The handlers run; whether they throw is not the sender's business.
Dispatch(d, u) ==
  /\ Takes(d, "dispatching", u)
  /\ dispatched' = [dispatched EXCEPT ![u] = @ + 1]
  /\ UNCHANGED <<storeVars, lists, dedupFailed, receipt, missed, lost, setbacks>>

\* Slip: the answer forgets that the store failed.
RespondOk(d) ==
  /\ stage[d] = "dispatching" /\ left[d] = <<>>
  /\ stage' = [stage EXCEPT ![d] = "done"]
  /\ answer' = [answer EXCEPT ![d] = "ok"]
  /\ UNCHANGED <<storeVars, dispatched, posted, left, lists, dedupFailed, receipt, missed, lost,
                 setbacks>>

Respond(d) ==
  /\ stage[d] = "dispatching" /\ left[d] = <<>>
  /\ stage' = [stage EXCEPT ![d] = "done"]
  /\ answer' = [answer EXCEPT ![d] = IF dedupFailed[d] THEN "unavailable" ELSE "ok"]
  /\ UNCHANGED <<storeVars, dispatched, posted, left, lists, dedupFailed, receipt, missed, lost,
                 setbacks>>

InFlight == {d \in Delivery : stage[d] \notin {"new", "done"}}

\* A process dies with the deliveries it was handling.
Crash(S) ==
  /\ S # {}
  /\ Setback
  /\ lost' = lost \cup UNION {InHand(d) : d \in S}
  /\ stage' = [d \in Delivery |-> IF d \in S THEN "done" ELSE stage[d]]
  /\ answer' = [d \in Delivery |-> IF d \in S THEN "died" ELSE answer[d]]
  /\ receipt' = [d \in Delivery |-> IF d \in S THEN None ELSE receipt[d]]
  /\ UNCHANGED <<storeVars, dispatched, posted, left, lists, dedupFailed, missed>>

Step(d) ==
  \/ \E u \in Update :
       \/ Record(d, u) \/ Project(d, u) \/ Dispatch(d, u)
       \/ \E commits \in BOOLEAN :
            RecordThrows(d, u, commits) \/ ProjectThrows(d, u, commits)
  \/ AllRecorded(d) \/ AllProjected(d) \/ Respond(d)

Terminated == (\A d \in Delivery : answer[d] \in {"ok"} \cup Refusal) /\ UNCHANGED vars

Next ==
  \/ \E d \in Delivery, e \in Envelopes : Post(d, e)
  \/ \E d \in Delivery : PostAgain(d) \/ Step(d)
  \/ \E S \in SUBSET InFlight : Crash(S)
  \/ Terminated

Spec == Init /\ [][Next]_vars

\* The store answers or fails, handlers settle, and Meta does post again;
\* processes need never die.
Fairness == \A d \in Delivery : WF_vars(Step(d)) /\ WF_vars(PostAgain(d))
FairSpec == Spec /\ Fairness
-----------------------------------------------------------------------------
(* Correctness *)

Stage == {"new", "recording", "projecting", "dispatching", "done"}
Answer == {"none", "ok", "unavailable", "died"} \cup Refusal

TypeOK ==
  /\ recorded \in SUBSET Keyed
  /\ stored \in [Projected -> SUBSET Int]
  /\ dispatched \in [Update -> Nat]
  /\ stage \in [Delivery -> Stage]
  /\ request \in [Delivery -> Requests] /\ envelope \in [Delivery -> Envelopes \cup {<<>>}]
  /\ body \in [Delivery -> Seq(Update)]
  /\ left \in [Delivery -> Seq(Update)]
  /\ toDispatch \in [Delivery -> Seq(Update)]
  /\ deduped \in [Delivery -> Seq(Keyed)]
  /\ dedupFailed \in [Delivery -> BOOLEAN]
  /\ answer \in [Delivery -> Answer]
  /\ receipt \in [Delivery -> Clock \cup {None}]
  /\ missed \in [Delivery -> SUBSET Projected]
  /\ lost \in SUBSET Keyed
  /\ setbacks \in Nat

\* What the loops go through is what the envelope carries, but for items whose kind and id
\* an earlier one had, and for those past the limit: nothing illegible hides what follows.
EnvelopesAreRead ==
  \A d \in Delivery : stage[d] # "new" =>
    IsReading(envelope[d], Legible(envelope[d]), body[d], Normalize(envelope[d]).limitHit)

\* "duplicate deliveries are acknowledged without redispatching the same
\* update": concurrent, repeated and half-failed deliveries of an update
\* with a key give it to the handlers once at most.
DispatchedAtMostOnce == \A u \in Keyed : dispatched[u] <= 1

\* A 200 stops Meta from posting again, so nothing of the envelope may still
\* need it: every update was dispatched, is in the hands of a delivery that
\* has recorded it, or is lost already.
OkLeavesNothingToRetry ==
  \A d \in Delivery : answer[d] = "ok" =>
    \A u \in Range(body[d]) :
      \/ dispatched[u] > 0
      \/ u \in lost
      \/ \E e \in Delivery : u \in InHand(e)

\* A 200 also means that each update is projected, or that its projection
\* failed in this delivery: a duplicate repairs an earlier failure.
OkRepairsProjections ==
  \A d \in Delivery : answer[d] = "ok" =>
    \A u \in Range(body[d]) \cap Projected : stored[u] # {} \/ u \in missed[d]

\* "Invalid requests do not poison dedup": whatever the store or a handler has seen of an
\* update came with a delivery that was authentic, whole and accepted.
OnlyAuthenticUpdates ==
  \A u \in Update :
    (dispatched[u] > 0 \/ u \in recorded \/ (u \in Projected /\ stored[u] # {})) =>
      \E d \in Delivery :
        u \in Range(body[d]) /\ answer[d] \notin Refusal /\ Authentic(request[d])

\* "Authenticate before inspecting complexity": who has no secret learns nothing about
\* what the adapter makes of the content.
RefusalsTellNothing ==
  \A d, e \in Delivery :
    (/\ answer[d] \in Refusal /\ answer[e] \in Refusal
     /\ ~ Authentic(request[d])
     /\ \A field \in DOMAIN request[d] \ {"content"} : request[d][field] = request[e][field])
      => answer[d] = answer[e]

\* A 200 leaves nothing behind that only another delivery could mend, and a refusal
\* nothing at all.
AnswersAreTrue ==
  /\ TypeOK
  /\ EnvelopesAreRead /\ OkLeavesNothingToRetry /\ OkRepairsProjections
  /\ OnlyAuthenticUpdates /\ RefusalsTellNothing

\* Whatever clocks received the messages, and in whatever order, nobody is
\* told that the customer may be written to after the window of the last
\* message has closed; and nobody is told otherwise while the window of a
\* stored message is open, less what the slowest clock is behind.
Inbound == UNION {stored[u] : u \in Message}
Arrived == UNION {Range(body[d]) \cap Message : d \in Delivery}
Slowest == Min(Clock)
Horizon == Slowest .. (Max(Clock) + WindowMs)

WindowAgrees ==
  \A now \in Horizon :
    /\ Remaining(Inbound, now) <= WindowMs
    /\ Open(Inbound, now) => \E u \in Arrived : now < Sent[u] + WindowMs
    /\ ~ Open(Inbound, now) =>
         \A u \in Message : stored[u] # {} => now >= Min({Sent[u], Slowest}) + WindowMs

\* The life of an update with a key, across all its deliveries.
Fate == [u \in Keyed |->
  IF dispatched[u] > 0 THEN "handled"
  ELSE IF u \in lost THEN "lost"
  ELSE IF u \in recorded THEN "taken" ELSE "unseen"]

Contract == INSTANCE OnceOnlyInbox WITH Update <- Keyed, fate <- Fate

ImplementsOnceOnlyInbox == Contract!Spec

\* As long as Meta posts again what is not answered 200, every update of an
\* envelope that was not refused reaches the handlers or is lost.
EveryUpdateIsHandled ==
  \A d \in Delivery :
    (stage[d] # "new" /\ answer[d] \notin Refusal)
      ~> (\A u \in Range(body[d]) : dispatched[u] > 0 \/ u \in lost)

\* "the failed update and remaining batch are left for retry": an update of
\* an envelope answered 503 is not suppressed on retry unless it was, or is
\* being, dispatched.
FailedUpdatesAreLeftForRetry ==
  \A d \in Delivery : answer[d] = "unavailable" =>
    \A u \in Range(body[d]) \cap recorded :
      dispatched[u] > 0 \/ \E e \in Delivery : u \in InHand(e)
=============================================================================
