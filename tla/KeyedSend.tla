------------------------------- MODULE KeyedSend -------------------------------
(***************************************************************************)
(* Keyed sends: POST /messages and /messages/text with an Idempotency-Key  *)
(* (handleTextMessage and handleGenericMessage of packages/service, the    *)
(* claim and completion of serviceRequests.ts, and the wats_service_       *)
(* requests table behind them).                                            *)
(*                                                                         *)
(* A call is one HTTP request; a client that retries makes another call.   *)
(* Calls run in any number of service processes over one table.  Each      *)
(* await is a point where the others run, and each statement of the        *)
(* Postgres store a step of its own (SQLite runs the statements of one     *)
(* operation together, which is one of the orders allowed here).  stage[c] *)
(* names what call c is waiting for:                                       *)
(*    "claiming"   INSERT of the claim      "reading"  SELECT of the row   *)
(*    "sending"    the Graph API            "checking" SELECT to complete  *)
(*    "storing"    UPDATE to complete       "projecting" message projection*)
(* A key stands for the namespaced key of one operation, a payload for its *)
(* hash.  Calls without a key, and calls refused before the claim, touch   *)
(* nothing that is modelled.                                               *)
(***************************************************************************)
EXTENDS Naturals, FiniteSets

CONSTANTS
  Call,          \* the HTTP requests that are ever made
  Key,           \* namespaced idempotency keys
  Payload,       \* hashes of outgoing payloads
  NoCall, NoKey, NoPayload,
  MaxSetbacks    \* bound: faults of the store, the network and the processes

ASSUME KeyedSendAssumption ==
  /\ NoCall \notin Call /\ NoKey \notin Key /\ NoPayload \notin Payload
  /\ MaxSetbacks \in Nat

VARIABLES
  status,        \* status[k]: "none", "claimed" or "completed"
  hash,          \* hash[k]: request_hash
  response,      \* response[k]: response_json, named by the call Meta answered
  stage,         \* stage[c]: see above; "new" before, "done" after
  key, payload,  \* what call c asks for
  degraded,      \* degraded[c]: the completion failed
  outcome,       \* outcome[c]: how c was answered
  message,       \* message[c]: the message a 200 answer to c names
  accepted,      \* history: calls whose message Meta accepted, by key
  owner,         \* history: the call whose INSERT made the row
  setbacks       \* history: setbacks so far

rowVars == <<status, hash, response, owner>>
askVars == <<key, payload>>
answerVars == <<outcome, message>>
vars == <<rowVars, askVars, answerVars, stage, degraded, accepted, setbacks>>

Stage == {"new", "claiming", "reading", "sending", "checking", "storing",
          "projecting", "done"}
Outcome == {"none", "sent", "degraded", "replayed", "pending", "conflict",
            "unavailable", "graph_error", "died"}

\* The stages in which c has been told "claimed" and is past the claim.
Claimed == {"sending", "checking", "storing", "projecting"}

Init ==
  /\ status = [k \in Key |-> "none"]
  /\ hash = [k \in Key |-> NoPayload]
  /\ response = [k \in Key |-> NoCall]
  /\ owner = [k \in Key |-> NoCall]
  /\ stage = [c \in Call |-> "new"]
  /\ key = [c \in Call |-> NoKey]
  /\ payload = [c \in Call |-> NoPayload]
  /\ degraded = [c \in Call |-> FALSE]
  /\ outcome = [c \in Call |-> "none"]
  /\ message = [c \in Call |-> NoCall]
  /\ accepted = [k \in Key |-> {}]
  /\ setbacks = 0
-----------------------------------------------------------------------------
Setback ==
  /\ setbacks < MaxSetbacks
  /\ setbacks' = setbacks + 1

MoveTo(c, s) == stage' = [stage EXCEPT ![c] = s] /\ UNCHANGED answerVars

\* The HTTP answer to c; m is the message a 200 carries.
Answer(c, o, m) ==
  /\ stage' = [stage EXCEPT ![c] = "done"]
  /\ outcome' = [outcome EXCEPT ![c] = o]
  /\ message' = [message EXCEPT ![c] = m]

InsertClaim(c) ==
  /\ status[key[c]] = "none"
  /\ status' = [status EXCEPT ![key[c]] = "claimed"]
  /\ hash' = [hash EXCEPT ![key[c]] = payload[c]]
  /\ owner' = [owner EXCEPT ![key[c]] = c]
  /\ UNCHANGED response

\* The row is a claim on the payload of c.
IsClaimedFor(c) == status[key[c]] = "claimed" /\ hash[key[c]] = payload[c]

\* UPDATE ... WHERE request_hash = ? AND status = 'claimed'
StoreResponse(c) ==
  /\ status' = [status EXCEPT ![key[c]] = IF IsClaimedFor(c) THEN "completed" ELSE @]
  /\ response' = [response EXCEPT ![key[c]] = IF IsClaimedFor(c) THEN c ELSE @]
  /\ UNCHANGED <<hash, owner>>

AcceptedByMeta(c) == accepted' = [accepted EXCEPT ![key[c]] = @ \cup {c}]
-----------------------------------------------------------------------------
\* A request with a valid body and key reaches the handler.
Arrive(c, k, p) ==
  /\ stage[c] = "new"
  /\ key' = [key EXCEPT ![c] = k]
  /\ payload' = [payload EXCEPT ![c] = p]
  /\ MoveTo(c, "claiming")
  /\ UNCHANGED <<rowVars, degraded, accepted, setbacks>>

\* INSERT ... ON CONFLICT DO NOTHING finds the key free.
ClaimInserts(c) ==
  /\ stage[c] = "claiming"
  /\ InsertClaim(c)
  /\ MoveTo(c, "sending")
  /\ UNCHANGED <<askVars, degraded, accepted, setbacks>>

\* The INSERT changes nothing: the row is read again.
ClaimFindsRow(c) ==
  /\ stage[c] = "claiming"
  /\ status[key[c]] # "none"
  /\ MoveTo(c, "reading")
  /\ UNCHANGED <<rowVars, askVars, degraded, accepted, setbacks>>

\* Slip: a pending claim is taken for an abandoned one and sent again.
ClaimReadsAndTakesOver(c) ==
  /\ stage[c] = "reading"
  /\ LET k == key[c] IN
       \/ hash[k] # payload[c] /\ Answer(c, "conflict", NoCall)
       \/ /\ hash[k] = payload[c] /\ status[k] = "completed"
          /\ Answer(c, "replayed", response[k])
       \/ /\ hash[k] = payload[c] /\ status[k] = "claimed"
          /\ MoveTo(c, "sending")
  /\ UNCHANGED <<rowVars, askVars, degraded, accepted, setbacks>>

ClaimReads(c) ==
  /\ stage[c] = "reading"
  /\ LET k == key[c] IN
       \/ hash[k] # payload[c] /\ Answer(c, "conflict", NoCall)
       \/ /\ hash[k] = payload[c] /\ status[k] = "completed"
          /\ Answer(c, "replayed", response[k])
       \/ /\ hash[k] = payload[c] /\ status[k] = "claimed"
          /\ Answer(c, "pending", NoCall)
  /\ UNCHANGED <<rowVars, askVars, degraded, accepted, setbacks>>

\* Slip: when the claim fails the message is sent all the same.
ClaimThrowsAndSends(c) ==
  /\ stage[c] \in {"claiming", "reading"}
  /\ Setback
  /\ UNCHANGED rowVars \/ (stage[c] = "claiming" /\ InsertClaim(c))
  /\ MoveTo(c, "sending")
  /\ UNCHANGED <<askVars, degraded, accepted>>

\* The store fails: 503.  The INSERT may have taken effect all the same.
ClaimThrows(c) ==
  /\ stage[c] \in {"claiming", "reading"}
  /\ Setback
  /\ UNCHANGED rowVars \/ (stage[c] = "claiming" /\ InsertClaim(c))
  /\ Answer(c, "unavailable", NoCall)
  /\ UNCHANGED <<askVars, degraded, accepted>>

GraphAccepts(c) ==
  /\ stage[c] = "sending"
  /\ AcceptedByMeta(c)
  /\ MoveTo(c, "checking")
  /\ UNCHANGED <<rowVars, askVars, degraded, setbacks>>

\* Meta refuses, or accepts and the answer is lost; the claim stays.
GraphFails(c) ==
  /\ stage[c] = "sending"
  /\ Setback
  /\ UNCHANGED accepted \/ AcceptedByMeta(c)
  /\ Answer(c, "graph_error", NoCall)
  /\ UNCHANGED <<rowVars, askVars, degraded>>

\* Slip: a claimed row passes for a completed one.
CompleteChecksNothing(c) ==
  /\ stage[c] = "checking"
  /\ MoveTo(c, "projecting")
  /\ UNCHANGED <<rowVars, askVars, degraded, accepted, setbacks>>

\* The SELECT of completeServiceRequest and the checks on what it finds: no
\* row and another hash are errors, a completed row leaves nothing to do.
CompleteChecks(c) ==
  /\ stage[c] = "checking"
  /\ MoveTo(c, IF IsClaimedFor(c) THEN "storing" ELSE "projecting")
  /\ degraded' = [degraded EXCEPT ![c] =
                    status[key[c]] = "none" \/ hash[key[c]] # payload[c]]
  /\ UNCHANGED <<rowVars, askVars, accepted, setbacks>>

\* The UPDATE; no row changed is an error ("lease is stale").
CompleteStores(c) ==
  /\ stage[c] = "storing"
  /\ StoreResponse(c)
  /\ degraded' = [degraded EXCEPT ![c] = ~IsClaimedFor(c)]
  /\ MoveTo(c, "projecting")
  /\ UNCHANGED <<askVars, accepted, setbacks>>

\* Slip: completeKeyedSend swallows the error and reports success.
CompleteThrowsUnnoticed(c) ==
  /\ stage[c] \in {"checking", "storing"}
  /\ Setback
  /\ UNCHANGED rowVars \/ (stage[c] = "storing" /\ StoreResponse(c))
  /\ MoveTo(c, "projecting")
  /\ UNCHANGED <<askVars, degraded, accepted>>

\* The store fails, before or after the UPDATE has taken effect.
CompleteThrows(c) ==
  /\ stage[c] \in {"checking", "storing"}
  /\ Setback
  /\ UNCHANGED rowVars \/ (stage[c] = "storing" /\ StoreResponse(c))
  /\ degraded' = [degraded EXCEPT ![c] = TRUE]
  /\ MoveTo(c, "projecting")
  /\ UNCHANGED <<askVars, accepted>>

\* The projection, whose errors are swallowed, and the 200.
Finish(c) ==
  /\ stage[c] = "projecting"
  /\ Answer(c, IF degraded[c] THEN "degraded" ELSE "sent", c)
  /\ UNCHANGED <<rowVars, askVars, degraded, accepted, setbacks>>

InFlight == {c \in Call : stage[c] \notin {"new", "done"}}

\* A process dies with the calls it was handling.
Crash(S) ==
  /\ S # {}
  /\ Setback
  /\ stage' = [c \in Call |-> IF c \in S THEN "done" ELSE stage[c]]
  /\ outcome' = [c \in Call |-> IF c \in S THEN "died" ELSE outcome[c]]
  /\ UNCHANGED <<rowVars, askVars, message, degraded, accepted>>

Step(c) ==
  \/ ClaimInserts(c) \/ ClaimFindsRow(c) \/ ClaimReads(c) \/ ClaimThrows(c)
  \/ GraphAccepts(c) \/ GraphFails(c)
  \/ CompleteChecks(c) \/ CompleteStores(c) \/ CompleteThrows(c)
  \/ Finish(c)

Terminated == (\A c \in Call : stage[c] = "done") /\ UNCHANGED vars

Next ==
  \/ \E c \in Call, k \in Key, p \in Payload : Arrive(c, k, p)
  \/ \E c \in Call : Step(c)
  \/ \E S \in SUBSET InFlight : Crash(S)
  \/ Terminated

Spec == Init /\ [][Next]_vars

\* Weak fairness of Step(c), which is enabled when c is in flight and only then.
Served(c) == []<>(c \notin InFlight) \/ []<><<Step(c)>>_vars

\* The store and the Graph API answer, one way or the other; calls need
\* never arrive and processes need never die.
Fairness == \A c \in Call : Served(c)

FairSpec == Spec /\ Fairness
-----------------------------------------------------------------------------
(* Correctness *)

\* The columns of a row go together: a hash from the claim on, a response
\* when it is completed and not before.
RowOK(k) ==
  /\ hash[k] = NoPayload <=> status[k] = "none"
  /\ response[k] = NoCall <=> status[k] # "completed"

TypeOK ==
  /\ \A k \in Key : RowOK(k)
  /\ status \in [Key -> {"none", "claimed", "completed"}]
  /\ hash \in [Key -> Payload \cup {NoPayload}]
  /\ response \in [Key -> Call \cup {NoCall}]
  /\ owner \in [Key -> Call \cup {NoCall}]
  /\ stage \in [Call -> Stage]
  /\ key \in [Call -> Key \cup {NoKey}]
  /\ payload \in [Call -> Payload \cup {NoPayload}]
  /\ degraded \in [Call -> BOOLEAN]
  /\ outcome \in [Call -> Outcome]
  /\ message \in [Call -> Call \cup {NoCall}]
  /\ accepted \in [Key -> SUBSET Call]
  /\ setbacks \in Nat

\* "no blind resend": whatever fails, is retried or dies, Meta accepts at
\* most one message per key.
AtMostOneAccepted ==
  \A k \in Key : \A c, d \in accepted[k] : c = d

Ok(c) == outcome[c] \in {"sent", "degraded", "replayed"}

\* All 200 answers for one key name one message, one that Meta did accept,
\* and went to callers who asked for the same payload.
OkAnswersAgree ==
  \A c \in Call : Ok(c) =>
    /\ message[c] \in accepted[key[c]]
    /\ payload[message[c]] = payload[c]
    /\ \A d \in Call : Ok(d) /\ key[d] = key[c] =>
         message[d] = message[c] /\ payload[d] = payload[c]

\* A 200 without "x-wats-persistence: degraded" is durable: the row holds
\* its message, so every later call of the key can be answered from it.
UnmarkedAnswersAreDurable ==
  \A c \in Call : outcome[c] \in {"sent", "replayed"} =>
    status[key[c]] = "completed" /\ response[key[c]] = message[c]

\* 200 answers are true, and lasting unless they say otherwise.
AnswersHold == OkAnswersAgree /\ UnmarkedAnswersAreDurable

\* A claim is never released, rebound or completed twice.
RowsOnlyMoveForward ==
  [][\A k \in Key :
       /\ status[k] # "none" => status'[k] # "none" /\ hash'[k] = hash[k]
       /\ status[k] = "completed" =>
            status'[k] = "completed" /\ response'[k] = response[k]]_vars

\* Keys, their rows and what Meta accepted implement the once-only send.
Recorded == [k \in Key |-> IF status[k] = "completed" THEN {response[k]} ELSE {}]

Contract == INSTANCE OnceOnlySend WITH
  Message <- Call, Unbound <- NoPayload,
  bound <- hash, sent <- accepted, recorded <- Recorded

ImplementsOnceOnlySend == Contract!Spec

\* A key stays pending for ever only if the call that claimed it has died or has
\* told its client of a failure; a client that was told "sent" leaves no claim.
Failure == {"unavailable", "graph_error", "degraded", "died"}

ClaimsResolve ==
  \A k \in Key, c \in Call :
    (status[k] = "claimed" /\ owner[k] = c) ~>
      (status[k] = "completed" \/ outcome[c] \in Failure)
=============================================================================
