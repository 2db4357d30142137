--------------------------- MODULE KeyedSend_proofs ---------------------------
(***************************************************************************)
(* Proofs about KeyedSend, for every number of calls, keys and payloads.   *)
(*                                                                         *)
(* The argument: a row is inserted once, by its owner, and never deleted;  *)
(* only the owner is ever told "claimed", so only the owner reaches the    *)
(* Graph API, and it leaves the sending stage with its one attempt.        *)
(***************************************************************************)
EXTENDS KeyedSend, TLAPS

\* What a row says of its owner and of what Meta has accepted.
RowInv ==
  \A k \in Key :
    /\ status[k] = "none" => hash[k] = NoPayload /\ owner[k] = NoCall
    /\ status[k] # "none" =>
         /\ owner[k] \in Call /\ key[owner[k]] = k /\ stage[owner[k]] # "new"
         /\ hash[k] = payload[owner[k]] /\ hash[k] \in Payload
    /\ \A c \in accepted[k] : c = owner[k]
    /\ status[k] = "completed" => response[k] = owner[k] /\ owner[k] \in accepted[k]

\* How far a call that was told "claimed" has come.
CallInv ==
  \A c \in Call :
    /\ stage[c] # "new" => key[c] \in Key /\ payload[c] \in Payload
    /\ stage[c] = "new" => outcome[c] = "none"
    /\ stage[c] = "reading" => status[key[c]] # "none"
    /\ stage[c] \in Claimed => status[key[c]] # "none" /\ owner[key[c]] = c
    /\ stage[c] = "sending" => c \notin accepted[key[c]]
    /\ stage[c] \in Claimed \ {"sending"} => c \in accepted[key[c]]
    /\ stage[c] = "projecting" /\ ~degraded[c] => status[key[c]] = "completed"

\* What an answer says of the row it was made from.
AnswerInv ==
  \A c \in Call : Ok(c) =>
    /\ status[key[c]] # "none"
    /\ message[c] = owner[key[c]] /\ owner[key[c]] \in accepted[key[c]]
    /\ hash[key[c]] = payload[c]
    /\ outcome[c] # "degraded" => status[key[c]] = "completed"

IInv == TypeOK /\ RowInv /\ CallInv /\ AnswerInv
-----------------------------------------------------------------------------
LEMMA InvInit == Init => IInv
BY KeyedSendAssumption
DEF Init, IInv, TypeOK, RowOK, RowInv, CallInv, AnswerInv, Ok, Stage, Outcome, Claimed

LEMMA ArriveKeeps ==
  ASSUME IInv, NEW c \in Call, NEW k \in Key, NEW p \in Payload, Arrive(c, k, p)
  PROVE  IInv'
<1> USE KeyedSendAssumption DEF IInv, Arrive, MoveTo, rowVars, answerVars
<1>1. TypeOK'
  BY DEF TypeOK, RowOK, Stage
<1>2. RowInv'
  <2>1. \A j \in Key : status[j] # "none" => owner[j] # c
    BY DEF RowInv, TypeOK
  <2> QED
    BY <2>1 DEF RowInv, TypeOK
<1>3. CallInv'
  BY DEF CallInv, TypeOK, Claimed
<1>4. AnswerInv'
  BY DEF AnswerInv, CallInv, TypeOK, Ok
<1> QED
  BY <1>1, <1>2, <1>3, <1>4

LEMMA ClaimInsertsKeeps ==
  ASSUME IInv, NEW c \in Call, ClaimInserts(c)
  PROVE  IInv'
<1> USE KeyedSendAssumption DEF IInv, ClaimInserts, InsertClaim, MoveTo, askVars, answerVars
<1>1. TypeOK'
  BY DEF TypeOK, RowOK, CallInv, Stage, Outcome
<1>2. RowInv'
  BY DEF RowInv, CallInv, TypeOK, Claimed
<1>3. CallInv'
  BY DEF RowInv, CallInv, TypeOK, Claimed
<1>4. AnswerInv'
  BY DEF AnswerInv, RowInv, CallInv, TypeOK, Claimed, Ok
<1> QED
  BY <1>1, <1>2, <1>3, <1>4

LEMMA ClaimFindsRowKeeps ==
  ASSUME IInv, NEW c \in Call, ClaimFindsRow(c)
  PROVE  IInv'
<1> USE KeyedSendAssumption DEF IInv, ClaimFindsRow, MoveTo, rowVars, askVars, answerVars
<1>1. TypeOK'
  BY DEF TypeOK, RowOK, Stage, Outcome
<1>2. RowInv'
  BY DEF RowInv, CallInv, TypeOK, Claimed
<1>3. CallInv'
  BY DEF RowInv, CallInv, TypeOK, Claimed
<1>4. AnswerInv'
  BY DEF AnswerInv, RowInv, CallInv, TypeOK, Claimed, Ok
<1> QED
  BY <1>1, <1>2, <1>3, <1>4

LEMMA ClaimReadsKeeps ==
  ASSUME IInv, NEW c \in Call, ClaimReads(c)
  PROVE  IInv'
<1> USE KeyedSendAssumption DEF IInv, ClaimReads, Answer, rowVars, askVars
<1>1. TypeOK'
  <2>1. response[key[c]] \in Call \cup {NoCall}
    BY DEF TypeOK, CallInv
  <2> QED
    BY <2>1 DEF TypeOK, RowOK, Stage, Outcome
<1>2. RowInv'
  BY DEF RowInv, CallInv, TypeOK, Claimed
<1>3. CallInv'
  BY DEF RowInv, CallInv, TypeOK, Claimed
<1>4. AnswerInv'
  BY DEF AnswerInv, RowInv, CallInv, TypeOK, Claimed, Ok
<1> QED
  BY <1>1, <1>2, <1>3, <1>4

LEMMA ClaimThrowsKeeps ==
  ASSUME IInv, NEW c \in Call, ClaimThrows(c)
  PROVE  IInv'
<1> USE KeyedSendAssumption DEF IInv, ClaimThrows, Setback, InsertClaim, Answer, rowVars, askVars
<1>1. TypeOK'
  BY DEF TypeOK, RowOK, CallInv, Stage, Outcome
<1>2. RowInv'
  BY DEF RowInv, CallInv, TypeOK, Claimed
<1>3. CallInv'
  BY DEF RowInv, CallInv, TypeOK, Claimed
<1>4. AnswerInv'
  BY DEF AnswerInv, RowInv, CallInv, TypeOK, Claimed, Ok
<1> QED
  BY <1>1, <1>2, <1>3, <1>4

LEMMA GraphAcceptsKeeps ==
  ASSUME IInv, NEW c \in Call, GraphAccepts(c)
  PROVE  IInv'
<1> USE KeyedSendAssumption DEF IInv, GraphAccepts, AcceptedByMeta, MoveTo, rowVars, askVars, answerVars
<1>1. TypeOK'
  BY DEF TypeOK, RowOK, Stage, Outcome
<1>2. RowInv'
  BY DEF RowInv, CallInv, TypeOK, Claimed
<1>3. CallInv'
  BY DEF RowInv, CallInv, TypeOK, Claimed
<1>4. AnswerInv'
  BY DEF AnswerInv, RowInv, CallInv, TypeOK, Claimed, Ok
<1> QED
  BY <1>1, <1>2, <1>3, <1>4

LEMMA GraphFailsKeeps ==
  ASSUME IInv, NEW c \in Call, GraphFails(c)
  PROVE  IInv'
<1> USE KeyedSendAssumption DEF IInv, GraphFails, Setback, AcceptedByMeta, Answer, rowVars, askVars
<1>1. TypeOK'
  BY DEF TypeOK, RowOK, Stage, Outcome
<1>2. RowInv'
  BY DEF RowInv, CallInv, TypeOK, Claimed
<1>3. CallInv'
  BY DEF RowInv, CallInv, TypeOK, Claimed
<1>4. AnswerInv'
  BY DEF AnswerInv, RowInv, CallInv, TypeOK, Claimed, Ok
<1> QED
  BY <1>1, <1>2, <1>3, <1>4

LEMMA CompleteChecksKeeps ==
  ASSUME IInv, NEW c \in Call, CompleteChecks(c)
  PROVE  IInv'
<1> USE KeyedSendAssumption DEF IInv, CompleteChecks, MoveTo, IsClaimedFor, rowVars, askVars, answerVars
<1>1. TypeOK'
  BY DEF TypeOK, RowOK, Stage, Outcome
<1>2. RowInv'
  BY DEF RowInv, CallInv, TypeOK, Claimed
<1>3. CallInv'
  BY DEF RowInv, CallInv, TypeOK, Claimed
<1>4. AnswerInv'
  BY DEF AnswerInv, RowInv, CallInv, TypeOK, Claimed, Ok
<1> QED
  BY <1>1, <1>2, <1>3, <1>4

LEMMA CompleteStoresKeeps ==
  ASSUME IInv, NEW c \in Call, CompleteStores(c)
  PROVE  IInv'
<1> USE KeyedSendAssumption DEF IInv, CompleteStores, StoreResponse, IsClaimedFor, MoveTo, askVars, answerVars
<1>1. TypeOK'
  BY DEF TypeOK, RowOK, Stage, Outcome
<1>2. RowInv'
  BY DEF RowInv, CallInv, TypeOK, Claimed
<1>3. CallInv'
  BY DEF RowInv, CallInv, TypeOK, Claimed
<1>4. AnswerInv'
  BY DEF AnswerInv, RowInv, CallInv, TypeOK, Claimed, Ok
<1> QED
  BY <1>1, <1>2, <1>3, <1>4

LEMMA CompleteThrowsKeeps ==
  ASSUME IInv, NEW c \in Call, CompleteThrows(c)
  PROVE  IInv'
<1> USE KeyedSendAssumption DEF IInv, CompleteThrows, Setback, StoreResponse, IsClaimedFor, MoveTo, rowVars, askVars, answerVars
<1>1. TypeOK'
  BY DEF TypeOK, RowOK, Stage, Outcome
<1>2. RowInv'
  BY DEF RowInv, CallInv, TypeOK, Claimed
<1>3. CallInv'
  BY DEF RowInv, CallInv, TypeOK, Claimed
<1>4. AnswerInv'
  BY DEF AnswerInv, RowInv, CallInv, TypeOK, Claimed, Ok
<1> QED
  BY <1>1, <1>2, <1>3, <1>4

LEMMA FinishKeeps ==
  ASSUME IInv, NEW c \in Call, Finish(c)
  PROVE  IInv'
<1> USE KeyedSendAssumption DEF IInv, Finish, Answer, rowVars, askVars
<1>1. TypeOK'
  BY DEF TypeOK, RowOK, Stage, Outcome
<1>2. RowInv'
  BY DEF RowInv, CallInv, TypeOK, Claimed
<1>3. CallInv'
  BY DEF RowInv, CallInv, TypeOK, Claimed
<1>4. AnswerInv'
  BY DEF AnswerInv, RowInv, CallInv, TypeOK, Claimed, Ok
<1> QED
  BY <1>1, <1>2, <1>3, <1>4

LEMMA CrashKeeps ==
  ASSUME IInv, NEW S \in SUBSET InFlight, Crash(S)
  PROVE  IInv'
<1> USE KeyedSendAssumption DEF IInv, Crash, Setback, InFlight, rowVars, askVars
<1>1. TypeOK'
  BY DEF TypeOK, RowOK, Stage, Outcome
<1>2. RowInv'
  BY DEF RowInv, TypeOK
<1>3. CallInv'
  BY DEF CallInv, TypeOK, Claimed
<1>4. AnswerInv'
  BY DEF AnswerInv, TypeOK, Ok
<1> QED
  BY <1>1, <1>2, <1>3, <1>4

LEMMA StutterKeeps == IInv /\ UNCHANGED vars => IInv'
BY DEF IInv, TypeOK, RowOK, RowInv, CallInv, AnswerInv, Ok, vars, rowVars, askVars, answerVars

LEMMA InvStep == IInv /\ [Next]_vars => IInv'
BY ArriveKeeps, ClaimInsertsKeeps, ClaimFindsRowKeeps, ClaimReadsKeeps, ClaimThrowsKeeps,
   GraphAcceptsKeeps, GraphFailsKeeps, CompleteChecksKeeps, CompleteStoresKeeps,
   CompleteThrowsKeeps, FinishKeeps, CrashKeeps, StutterKeeps
DEF Next, Step, Terminated

\* The invariant holds of any number of calls, in any number of processes.
THEOREM Invariance == Spec => []IInv
BY InvInit, InvStep, PTL DEF Spec
-----------------------------------------------------------------------------
(* What the invariant gives *)

\* Rows stay whole: see RowOK.
THEOREM TypeCorrect == Spec => []TypeOK
BY Invariance, PTL DEF IInv

\* Meta accepts at most one message under a key.
THEOREM AtMostOnce == Spec => []AtMostOneAccepted
<1>1. IInv => AtMostOneAccepted
  BY DEF IInv, TypeOK, RowInv, AtMostOneAccepted
<1> QED
  BY <1>1, Invariance, PTL

\* All 200 answers for a key name the message Meta accepted, and were asked
\* for with one payload.
THEOREM AnswersAgree == Spec => []OkAnswersAgree
<1>1. IInv => OkAnswersAgree
  <2> SUFFICES ASSUME IInv, NEW c \in Call, Ok(c)
               PROVE  /\ message[c] \in accepted[key[c]]
                      /\ payload[message[c]] = payload[c]
                      /\ \A d \in Call : Ok(d) /\ key[d] = key[c] =>
                           message[d] = message[c] /\ payload[d] = payload[c]
    BY DEF OkAnswersAgree
  <2>1. key[c] \in Key
    BY DEF IInv, CallInv, Ok
  <2> QED
    BY <2>1 DEF IInv, RowInv, AnswerInv
<1> QED
  BY <1>1, Invariance, PTL

\* A 200 without the degraded header is backed by a completed row.
THEOREM Durability == Spec => []UnmarkedAnswersAreDurable
<1>1. IInv => UnmarkedAnswersAreDurable
  <2> SUFFICES ASSUME IInv, NEW c \in Call, outcome[c] \in {"sent", "replayed"}
               PROVE  status[key[c]] = "completed" /\ response[key[c]] = message[c]
    BY DEF UnmarkedAnswersAreDurable
  <2>1. key[c] \in Key
    BY DEF IInv, CallInv
  <2> QED
    BY <2>1 DEF IInv, RowInv, AnswerInv, Ok
<1> QED
  BY <1>1, Invariance, PTL

\* 200 answers are true, and durable unless they are marked degraded.
THEOREM AnswersAreKept == Spec => []AnswersHold
BY AnswersAgree, Durability, PTL DEF AnswersHold

\* No step releases, rebinds or rewrites a row.
LEMMA RowsStep ==
  ASSUME IInv, [Next]_vars, NEW k \in Key
  PROVE  /\ status[k] # "none" => status'[k] # "none" /\ hash'[k] = hash[k]
         /\ status[k] = "completed" =>
              status'[k] = "completed" /\ response'[k] = response[k]
<1> DEFINE Forward ==
      /\ status[k] # "none" => status'[k] # "none" /\ hash'[k] = hash[k]
      /\ status[k] = "completed" => status'[k] = "completed" /\ response'[k] = response[k]
<1>1. CASE UNCHANGED rowVars
  BY <1>1 DEF rowVars
<1>2. ASSUME NEW c \in Call, InsertClaim(c) PROVE Forward
  BY <1>2 DEF InsertClaim, IInv, TypeOK
<1>3. ASSUME NEW c \in Call, StoreResponse(c) PROVE Forward
  BY <1>3 DEF StoreResponse, IsClaimedFor, IInv, TypeOK
<1>4. \/ UNCHANGED rowVars
      \/ \E c \in Call : InsertClaim(c) \/ StoreResponse(c)
  BY DEF Next, Step, Terminated, Arrive, ClaimInserts, ClaimFindsRow, ClaimReads, ClaimThrows,
         GraphAccepts, GraphFails, CompleteChecks, CompleteStores, CompleteThrows, Finish,
         Crash, vars
<1> QED
  BY <1>1, <1>2, <1>3, <1>4

THEOREM Monotony == Spec => RowsOnlyMoveForward
<1>1. IInv /\ [Next]_vars =>
        [\A k \in Key :
           /\ status[k] # "none" => status'[k] # "none" /\ hash'[k] = hash[k]
           /\ status[k] = "completed" =>
                status'[k] = "completed" /\ response'[k] = response[k]]_vars
  BY RowsStep
<1> QED
  BY <1>1, Invariance, PTL DEF Spec, RowsOnlyMoveForward
-----------------------------------------------------------------------------
(* Keyed sends implement the once-only send *)

LEMMA RefinementStep ==
  ASSUME IInv, [Next]_vars
  PROVE  [Contract!Next]_(Contract!vars)
<1> USE KeyedSendAssumption
<1>1. ASSUME UNCHANGED rowVars, UNCHANGED accepted PROVE UNCHANGED Contract!vars
  BY <1>1 DEF Contract!vars, rowVars, Recorded
<1>2. ASSUME NEW c \in Call, stage[c] = "claiming", InsertClaim(c), UNCHANGED accepted
      PROVE  Contract!Next
  <2>1. key[c] \in Key /\ payload[c] \in Payload
    BY <1>2 DEF IInv, CallInv
  <2>2. hash[key[c]] = NoPayload /\ hash' = [hash EXCEPT ![key[c]] = payload[c]]
    BY <1>2, <2>1 DEF IInv, RowInv, InsertClaim
  <2>3. Recorded' = Recorded
    BY <1>2, <2>1 DEF Recorded, InsertClaim, IInv, TypeOK
  <2>4. Contract!Bind(key[c], payload[c])
    BY <1>2, <2>2, <2>3 DEF Contract!Bind
  <2> QED
    BY <2>1, <2>4 DEF Contract!Next
<1>3. ASSUME NEW c \in Call, stage[c] = "sending", AcceptedByMeta(c), UNCHANGED rowVars
      PROVE  Contract!Next
  <2>1. key[c] \in Key /\ owner[key[c]] = c /\ hash[key[c]] \in Payload
    BY <1>3 DEF IInv, CallInv, RowInv, Claimed
  <2>2. accepted[key[c]] = {}
    BY <1>3, <2>1 DEF IInv, CallInv, RowInv, TypeOK
  <2>3. accepted' = [accepted EXCEPT ![key[c]] = {c}]
    BY <1>3, <2>1, <2>2 DEF AcceptedByMeta, IInv, TypeOK
  <2>4. Contract!Send(key[c], c)
    BY <1>3, <2>1, <2>2, <2>3 DEF Contract!Send, rowVars, Recorded
  <2> QED
    BY <2>1, <2>4 DEF Contract!Next
<1>4. ASSUME NEW c \in Call, stage[c] = "storing", StoreResponse(c), UNCHANGED accepted
      PROVE  [Contract!Next]_(Contract!vars)
  <2>1. /\ key[c] \in Key /\ owner[key[c]] = c
        /\ accepted[key[c]] = {c}
    BY <1>4 DEF IInv, CallInv, RowInv, Claimed, TypeOK
  <2>2. CASE IsClaimedFor(c)
    <3>1. /\ status[key[c]] = "claimed"
          /\ status' = [status EXCEPT ![key[c]] = "completed"]
          /\ response' = [response EXCEPT ![key[c]] = c]
          /\ hash' = hash
      BY <1>4, <2>2 DEF StoreResponse, IsClaimedFor
    <3>2. Recorded[key[c]] = {} /\ Recorded' = [Recorded EXCEPT ![key[c]] = {c}]
      BY <2>1, <3>1 DEF Recorded, IInv, TypeOK
    <3>3. Contract!Record(key[c])
      BY <1>4, <2>1, <3>1, <3>2 DEF Contract!Record
    <3>4. \E k \in Key : Contract!Record(k)
      BY <2>1, <3>3
    <3> QED
      BY <3>4 DEF Contract!Next
  <2>3. CASE ~IsClaimedFor(c)
    <3>1. UNCHANGED rowVars
      BY <1>4, <2>1, <2>3 DEF StoreResponse, IInv, TypeOK, rowVars
    <3> QED
      BY <1>1, <1>4, <3>1
  <2> QED
    BY <2>2, <2>3
<1>5. \/ UNCHANGED rowVars /\ UNCHANGED accepted
      \/ \E c \in Call : \/ stage[c] = "claiming" /\ InsertClaim(c) /\ UNCHANGED accepted
                         \/ stage[c] = "sending" /\ AcceptedByMeta(c) /\ UNCHANGED rowVars
                         \/ stage[c] = "storing" /\ StoreResponse(c) /\ UNCHANGED accepted
  BY DEF Next, Step, Terminated, Arrive, ClaimInserts, ClaimFindsRow, ClaimReads, ClaimThrows,
         GraphAccepts, GraphFails, CompleteChecks, CompleteStores, CompleteThrows, Finish,
         Crash, vars
<1> QED
  BY <1>1, <1>2, <1>3, <1>4, <1>5

\* A key is bound once, sends at most one message and records that one.
THEOREM Refinement == Spec => ImplementsOnceOnlySend
<1>1. Init => Contract!Init
  BY DEF Init, Contract!Init, Recorded
<1> QED
  BY <1>1, RefinementStep, Invariance, PTL DEF Spec, ImplementsOnceOnlySend, Contract!Spec
-----------------------------------------------------------------------------
(* Claims resolve *)

\* The owner of a row is past its claim, and when it is done it has been told
\* "sent" or of a failure.
OwnerInv ==
  \A k \in Key : status[k] # "none" =>
    /\ stage[owner[k]] \in Claimed \cup {"done"}
    /\ stage[owner[k]] = "done" => outcome[owner[k]] \in Failure \cup {"sent"}

LEMMA OwnerStep == IInv /\ OwnerInv /\ [Next]_vars => OwnerInv'
<1> SUFFICES ASSUME IInv, OwnerInv, [Next]_vars PROVE OwnerInv'
  OBVIOUS
<1> USE DEF IInv
<1>1. ASSUME NEW c \in Call, NEW k \in Key, NEW p \in Payload, Arrive(c, k, p) PROVE OwnerInv'
  BY <1>1 DEF OwnerInv, TypeOK, RowInv, Arrive, MoveTo, rowVars, answerVars
<1>2. ASSUME NEW c \in Call, ClaimInserts(c) PROVE OwnerInv'
  BY <1>2 DEF OwnerInv, TypeOK, RowInv, CallInv, ClaimInserts, InsertClaim, MoveTo, Claimed, answerVars
<1>3. ASSUME NEW c \in Call, ClaimFindsRow(c) \/ ClaimReads(c) PROVE OwnerInv'
  BY <1>3 DEF OwnerInv, TypeOK, RowInv, ClaimFindsRow, ClaimReads, MoveTo, Answer, Claimed,
              rowVars, answerVars
<1>4. ASSUME NEW c \in Call, ClaimThrows(c) PROVE OwnerInv'
  BY <1>4 DEF OwnerInv, TypeOK, RowInv, CallInv, ClaimThrows, InsertClaim, Answer, Claimed,
              Failure, rowVars
<1>5. ASSUME NEW c \in Call, GraphAccepts(c) \/ GraphFails(c) PROVE OwnerInv'
  BY <1>5 DEF OwnerInv, TypeOK, RowInv, GraphAccepts, GraphFails, MoveTo, Answer, Claimed,
              Failure, rowVars, answerVars
<1>6. ASSUME NEW c \in Call, CompleteChecks(c) \/ CompleteStores(c) \/ CompleteThrows(c)
      PROVE OwnerInv'
  BY <1>6 DEF OwnerInv, TypeOK, RowInv, CompleteChecks, CompleteStores, CompleteThrows,
              StoreResponse, IsClaimedFor, MoveTo, Claimed, rowVars, answerVars
<1>7. ASSUME NEW c \in Call, Finish(c) PROVE OwnerInv'
  BY <1>7 DEF OwnerInv, TypeOK, RowInv, Finish, Answer, Claimed, Failure, rowVars
<1>8. ASSUME NEW S \in SUBSET InFlight, Crash(S) PROVE OwnerInv'
  BY <1>8 DEF OwnerInv, TypeOK, RowInv, Crash, InFlight, Claimed, Failure, rowVars
<1>9. CASE UNCHANGED vars
  BY <1>9 DEF OwnerInv, vars, rowVars, answerVars
<1> QED
  BY <1>1, <1>2, <1>3, <1>4, <1>5, <1>6, <1>7, <1>8, <1>9 DEF Next, Step, Terminated

LEMMA OwnersAreHeard == Spec => [](IInv /\ OwnerInv)
<1>1. Init => OwnerInv
  BY DEF Init, OwnerInv
<1> QED
  BY <1>1, OwnerStep, Invariance, PTL DEF Spec

\* What a call in flight does next, when it does anything: it leaves its stage
\* for a later one, and nobody else moves it, save the end of its process.
LEMMA StagesAdvance ==
  ASSUME NEW c \in Call, IInv, [Next]_vars
  PROVE  /\ stage[c] = "claiming" => stage'[c] \in {"claiming", "reading", "sending", "done"}
         /\ stage[c] = "reading" => stage'[c] \in {"reading", "done"}
         /\ stage[c] = "sending" => stage'[c] \in {"sending", "checking", "done"}
         /\ stage[c] = "checking" => stage'[c] \in {"checking", "storing", "projecting", "done"}
         /\ stage[c] = "storing" => stage'[c] \in {"storing", "projecting", "done"}
         /\ stage[c] = "projecting" => stage'[c] \in {"projecting", "done"}
         /\ stage[c] = "done" => stage'[c] = "done"
<1> DEFINE Goal == /\ stage[c] = "claiming" => stage'[c] \in {"claiming", "reading", "sending", "done"}
                   /\ stage[c] = "reading" => stage'[c] \in {"reading", "done"}
                   /\ stage[c] = "sending" => stage'[c] \in {"sending", "checking", "done"}
                   /\ stage[c] = "checking" => stage'[c] \in {"checking", "storing", "projecting", "done"}
                   /\ stage[c] = "storing" => stage'[c] \in {"storing", "projecting", "done"}
                   /\ stage[c] = "projecting" => stage'[c] \in {"projecting", "done"}
                   /\ stage[c] = "done" => stage'[c] = "done"
<1>0. stage \in [Call -> Stage]
  BY DEF IInv, TypeOK
<1>1. ASSUME NEW d \in Call, NEW k \in Key, NEW p \in Payload, Arrive(d, k, p) PROVE Goal
  BY <1>0, <1>1 DEF Arrive, MoveTo
<1>2. ASSUME NEW d \in Call, ClaimInserts(d) \/ ClaimFindsRow(d) \/ ClaimReads(d) \/ ClaimThrows(d)
      PROVE  Goal
  BY <1>0, <1>2 DEF ClaimInserts, ClaimFindsRow, ClaimReads, ClaimThrows, MoveTo, Answer
<1>3. ASSUME NEW d \in Call, GraphAccepts(d) \/ GraphFails(d) PROVE Goal
  BY <1>0, <1>3 DEF GraphAccepts, GraphFails, MoveTo, Answer
<1>4. ASSUME NEW d \in Call, CompleteChecks(d) \/ CompleteStores(d) \/ CompleteThrows(d) PROVE Goal
  BY <1>0, <1>4 DEF CompleteChecks, CompleteStores, CompleteThrows, MoveTo
<1>5. ASSUME NEW d \in Call, Finish(d) PROVE Goal
  BY <1>0, <1>5 DEF Finish, Answer
<1>6. ASSUME NEW S \in SUBSET InFlight, Crash(S) PROVE Goal
  BY <1>0, <1>6 DEF Crash, InFlight
<1>7. ASSUME UNCHANGED vars PROVE Goal
  BY <1>7 DEF vars
<1> HIDE DEF Goal
<1>8. Goal
  BY <1>1, <1>2, <1>3, <1>4, <1>5, <1>6, <1>7 DEF Next, Step, Terminated
<1> QED
  BY <1>8 DEF Goal

LEMMA StepMoves ==
  ASSUME NEW c \in Call, IInv, Step(c)
  PROVE  stage'[c] # stage[c]
<1>0. stage \in [Call -> Stage]
  BY DEF IInv, TypeOK
<1>1. CASE ClaimInserts(c) \/ ClaimFindsRow(c) \/ ClaimReads(c) \/ ClaimThrows(c)
  BY <1>0, <1>1 DEF ClaimInserts, ClaimFindsRow, ClaimReads, ClaimThrows, MoveTo, Answer
<1>2. CASE GraphAccepts(c) \/ GraphFails(c) \/ Finish(c)
  BY <1>0, <1>2 DEF GraphAccepts, GraphFails, Finish, MoveTo, Answer
<1>3. CASE CompleteChecks(c) \/ CompleteStores(c) \/ CompleteThrows(c)
  BY <1>0, <1>3 DEF CompleteChecks, CompleteStores, CompleteThrows, MoveTo
<1> QED
  BY <1>1, <1>2, <1>3 DEF Step

\* A claim stays its owner's until it is completed.
LEMMA ClaimsStay ==
  ASSUME NEW k \in Key, NEW c \in Call, IInv, [Next]_vars, status[k] = "claimed", owner[k] = c
  PROVE  status'[k] = "completed" \/ (status'[k] = "claimed" /\ owner'[k] = c)
<1> USE DEF IInv
<1>1. status \in [Key -> {"none", "claimed", "completed"}] /\ owner \in [Key -> Call \cup {NoCall}]
  BY DEF TypeOK
<1>2. ASSUME NEW d \in Call, NEW j \in Key, NEW p \in Payload, Arrive(d, j, p)
      PROVE  status'[k] = "claimed" /\ owner'[k] = c
  BY <1>2 DEF Arrive, rowVars
<1>3. ASSUME NEW d \in Call, ClaimInserts(d) \/ ClaimThrows(d)
      PROVE  status'[k] = "claimed" /\ owner'[k] = c
  BY <1>1, <1>3 DEF ClaimInserts, ClaimThrows, InsertClaim, rowVars
<1>4. ASSUME NEW d \in Call, ClaimFindsRow(d) \/ ClaimReads(d) \/ GraphAccepts(d) \/ GraphFails(d)
                             \/ CompleteChecks(d) \/ Finish(d)
      PROVE  status'[k] = "claimed" /\ owner'[k] = c
  BY <1>4 DEF ClaimFindsRow, ClaimReads, GraphAccepts, GraphFails, CompleteChecks, Finish, rowVars
<1>5. ASSUME NEW d \in Call, CompleteStores(d) \/ CompleteThrows(d)
      PROVE  status'[k] \in {"claimed", "completed"} /\ owner'[k] = c
  BY <1>1, <1>5 DEF CompleteStores, CompleteThrows, StoreResponse, rowVars
<1>6. ASSUME NEW S \in SUBSET InFlight, Crash(S)
      PROVE  status'[k] = "claimed" /\ owner'[k] = c
  BY <1>6 DEF Crash, rowVars
<1>7. CASE UNCHANGED vars
  BY <1>7 DEF vars, rowVars
<1> QED
  BY <1>2, <1>3, <1>4, <1>5, <1>6, <1>7 DEF Next, Step, Terminated

LEMMA ClaimResolves ==
  ASSUME NEW k \in Key, NEW c \in Call
  PROVE  FairSpec => ((status[k] = "claimed" /\ owner[k] = c) ~>
                        (status[k] = "completed" \/ outcome[c] \in Failure))
<1> DEFINE Mine == status[k] = "claimed" /\ owner[k] = c
           Resolved == status[k] = "completed" \/ outcome[c] \in Failure
           Inv == IInv /\ OwnerInv
           At(s) == stage[c] = s
<1>1. FairSpec => Served(c)
  <2>1. Fairness => Served(c)
    BY DEF Fairness
  <2> QED
    BY <2>1, PTL DEF FairSpec
<1>2. Inv /\ Mine => At("sending") \/ At("checking") \/ At("storing") \/ At("projecting") \/ At("done")
  BY DEF OwnerInv, Claimed
<1>3. Inv /\ Mine /\ At("done") => Resolved
  BY DEF IInv, AnswerInv, RowInv, OwnerInv, Ok
<1>4. Inv /\ Mine /\ [Next]_vars => Mine' \/ (status[k] = "completed")'
  BY ClaimsStay
<1>5. Inv /\ [Next]_vars =>
        /\ At("sending") => At("sending")' \/ At("checking")' \/ At("done")'
        /\ At("checking") => At("checking")' \/ At("storing")' \/ At("projecting")' \/ At("done")'
        /\ At("storing") => At("storing")' \/ At("projecting")' \/ At("done")'
        /\ At("projecting") => At("projecting")' \/ At("done")'
        /\ At("done") => At("done")'
  BY StagesAdvance
<1>6. Inv /\ <<Step(c)>>_vars =>
        /\ At("sending") => ~At("sending")'
        /\ At("checking") => ~At("checking")'
        /\ At("storing") => ~At("storing")'
        /\ At("projecting") => ~At("projecting")'
  BY StepMoves
<1>7. c \notin InFlight => ~(At("sending") \/ At("checking") \/ At("storing") \/ At("projecting"))
  BY DEF InFlight
<1> QED
  BY <1>1, <1>2, <1>3, <1>4, <1>5, <1>6, <1>7, OwnersAreHeard, PTL DEF FairSpec, Spec, Served

\* A claim is completed unless its owner has failed, and been told so or died.
THEOREM Resolution == FairSpec => ClaimsResolve
BY ClaimResolves DEF ClaimsResolve

LEMMA CallEnds ==
  ASSUME NEW c \in Call
  PROVE  FairSpec => (c \in InFlight ~> stage[c] = "done")
<1> DEFINE At(s) == stage[c] = s
<1>1. FairSpec => Served(c)
  <2>1. Fairness => Served(c)
    BY DEF Fairness
  <2> QED
    BY <2>1, PTL DEF FairSpec
<1>2. IInv /\ c \in InFlight =>
        \/ At("claiming") \/ At("reading") \/ At("sending") \/ At("checking")
        \/ At("storing") \/ At("projecting")
  BY DEF IInv, TypeOK, InFlight, Stage
<1>3. IInv /\ [Next]_vars =>
        /\ At("claiming") => At("claiming")' \/ At("reading")' \/ At("sending")' \/ At("done")'
        /\ At("reading") => At("reading")' \/ At("done")'
        /\ At("sending") => At("sending")' \/ At("checking")' \/ At("done")'
        /\ At("checking") => At("checking")' \/ At("storing")' \/ At("projecting")' \/ At("done")'
        /\ At("storing") => At("storing")' \/ At("projecting")' \/ At("done")'
        /\ At("projecting") => At("projecting")' \/ At("done")'
  BY StagesAdvance
<1>4. IInv /\ <<Step(c)>>_vars =>
        /\ At("claiming") => ~At("claiming")'
        /\ At("reading") => ~At("reading")'
        /\ At("sending") => ~At("sending")'
        /\ At("checking") => ~At("checking")'
        /\ At("storing") => ~At("storing")'
        /\ At("projecting") => ~At("projecting")'
  BY StepMoves
<1>5. c \notin InFlight => ~(\/ At("claiming") \/ At("reading") \/ At("sending") \/ At("checking")
                              \/ At("storing") \/ At("projecting"))
  BY DEF InFlight
<1> QED
  BY <1>1, <1>2, <1>3, <1>4, <1>5, Invariance, PTL DEF FairSpec, Spec, Served

\* Every request that reached the handler is answered, or died with its process.
THEOREM CallsEnd == FairSpec => \A c \in Call : (c \in InFlight ~> stage[c] = "done")
BY CallEnds
=============================================================================
