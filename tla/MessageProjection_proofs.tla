----------------------- MODULE MessageProjection_proofs ------------------------
(***************************************************************************)
(* Proofs about MessageProjection, for every set of statuses and number of *)
(* processes, events, recordings and faults.                               *)
(***************************************************************************)
EXTENDS MessageProjection, TLAPS

-----------------------------------------------------------------------------
(* What an event makes of a row *)

\* The rules of the code follow the order of the statuses: an event is absorbed only if
\* it is not behind the row, and is left out only if it is not ahead of it.
LEMMA AdvanceFollowsLevel ==
  ASSUME NEW a, NEW b
  PROVE  /\ ShouldAdvance(a, b) => Level(b) <= Level(a)
         /\ ~ ShouldAdvance(a, b) => Level(a) <= Level(b)
BY DEF ShouldAdvance, Rank, StatusRank, Level

LEMMA LevelIsNat == \A s : Level(s) \in Nat
BY DEF Level

LEMMA AbsorbType ==
  ASSUME NEW r \in RowValue, NEW e \in Event, r # NoRow
  PROVE  Absorb(r, e) \in RowValue /\ Absorb(r, e) # NoRow
<1>1. r \in [status : EventStatus \cup {"sent"}, updatedAt : Time]
  BY DEF RowValue
<1>2. Absorb(r, e) \in [status : EventStatus \cup {"sent"}, updatedAt : Time]
  BY <1>1 DEF Absorb, Event
<1>3. Absorb(r, e).updatedAt \in Time
  BY <1>2
<1> QED
  BY <1>2, <1>3 DEF RowValue, NoRow, Time

LEMMA AbsorbKeeps ==
  ASSUME NEW r \in RowValue, NEW e \in Event
  PROVE  /\ Level(r.status) <= Level(Absorb(r, e).status)
         /\ Level(e.status) <= Level(Absorb(r, e).status)
         /\ r.updatedAt <= Absorb(r, e).updatedAt
         /\ Absorb(r, e).status \in {r.status, e.status}
<1>1. r.updatedAt \in Nat /\ e.timestamp \in Nat
  BY DEF RowValue, NoRow, Event, Time
<1>2. CASE ShouldAdvance(e.status, r.status)
  <2>1. Absorb(r, e).status = e.status
    BY <1>2 DEF Absorb
  <2>2. r.updatedAt <= Absorb(r, e).updatedAt
    BY <1>1, <1>2 DEF Absorb
  <2>3. Level(r.status) <= Level(e.status) /\ Level(e.status) <= Level(e.status)
    BY <1>2, AdvanceFollowsLevel, LevelIsNat
  <2> QED
    BY <2>1, <2>2, <2>3
<1>3. CASE ~ ShouldAdvance(e.status, r.status)
  <2>1. Absorb(r, e) = r
    BY <1>3 DEF Absorb
  <2> QED
    BY <1>1, <1>3, <2>1, AdvanceFollowsLevel, LevelIsNat
<1> QED
  BY <1>2, <1>3
-----------------------------------------------------------------------------
(***************************************************************************)
(* The inductive invariant.  While nothing has failed or overlapped, one   *)
(* operation is under way at most, and what it has read is what is there.  *)
(***************************************************************************)

\* Nobody knows of a status that was not reported.
Reported(r) == r = NoRow \/ r.status = "sent" \/ \E e \in events : e.status = r.status

ReportedInv == Reported(row) /\ \A p \in Process : Reported(seen[p])

\* What the operations have in hand.
HandInv ==
  \A p \in Process :
    /\ stage[p] \in {"inserting", "reading", "reconciling"} =>
         /\ records > 0
         /\ input[p] \in [status : {"sent"}, updatedAt : Time]
    /\ stage[p] \in {"reading", "reconciling"} => row # NoRow
    /\ stage[p] = "reconciling" => seen[p] # NoRow /\ input[p].updatedAt <= seen[p].updatedAt
    /\ stage[p] \in {"comparing", "committing"} => input[p] \in Event

Upto(r, E) == \A e \in E : Level(e.status) <= Level(r.status)

\* The row is behind no event, except that a row just recorded is the recorded one.
OperationInv(p) ==
  /\ stage[p] \in {"inserting", "comparing", "committing"} => row = NoRow \/ Upto(row, events)
  /\ stage[p] \in {"reading", "reconciling"} => row = input[p] \/ Upto(row, events)
  /\ stage[p] = "reconciling" => Upto(seen[p], events \ todo[p])
  /\ stage[p] = "committing" => seen[p] = row

\* While the message is recorded for the first time, the row is what that recording has
\* made of it.
FirstRecording(p) ==
  records <= 1 =>
    /\ stage[p] = "inserting" => row = NoRow
    /\ stage[p] \in {"reading", "reconciling"} => row = input[p]

AloneInv ==
  Undisturbed =>
    /\ \A p, q \in Process : stage[p] # "idle" /\ stage[q] # "idle" => p = q
    /\ Quiet => row = NoRow \/ Upto(row, events)
    /\ \A p \in Process : OperationInv(p) /\ FirstRecording(p)

NothingYet == records = 0 => row = NoRow /\ \A p \in Process : seen[p] = NoRow

IInv == TypeOK /\ ReportedInv /\ HandInv /\ AloneInv /\ NothingYet
-----------------------------------------------------------------------------
(* What the shared parts of the steps do *)

\* A step of p leaves the others where they are.
StepOf(p) ==
  \A q \in Process \ {p} :
    /\ stage'[q] = stage[q] /\ input'[q] = input[q]
    /\ seen'[q] = seen[q] /\ todo'[q] = todo[q]

LEMMA EndEffect ==
  ASSUME TypeOK, NEW p \in Process, End(p)
  PROVE  /\ StepOf(p) /\ stage'[p] = "idle" /\ seen'[p] = NoRow
         /\ records' = records /\ overlapped' = overlapped
         /\ stage' \in [Process -> Stage]
         /\ input' \in [Process -> RowValue \cup Event]
         /\ seen' \in [Process -> RowValue]
         /\ todo' \in [Process -> SUBSET events]
<1>1. NoRow \in RowValue
  BY DEF RowValue
<1> QED
  BY <1>1 DEF End, TypeOK, StepOf, Stage

LEMMA ProceedEffect ==
  ASSUME TypeOK, NEW p \in Process,
         NEW s \in Stage,
         NEW r \in RowValue, NEW rest \in SUBSET events, Proceed(p, s, r, rest)
  PROVE  /\ StepOf(p) /\ stage'[p] = s /\ seen'[p] = r /\ todo'[p] = rest
         /\ UNCHANGED <<input, records, faults, overlapped>>
         /\ stage' \in [Process -> Stage]
         /\ seen' \in [Process -> RowValue]
         /\ todo' \in [Process -> SUBSET events]
BY DEF Proceed, TypeOK, StepOf

LEMMA BeginEffect ==
  ASSUME TypeOK, NEW p \in Process,
         NEW s \in Stage,
         NEW i \in RowValue \cup Event, Begin(p, s, i)
  PROVE  /\ StepOf(p) /\ stage[p] = "idle" /\ stage'[p] = s /\ input'[p] = i
         /\ UNCHANGED <<stores, seen, todo, faults>>
         /\ overlapped' = (overlapped \/ ~ Quiet)
         /\ stage' \in [Process -> Stage]
         /\ input' \in [Process -> RowValue \cup Event]
BY DEF Begin, TypeOK, StepOf

\* What is said of the others stays true when rows and events stay, or grow.
LEMMA HandKept ==
  ASSUME HandInv, NEW p \in Process, StepOf(p), row # NoRow => row' # NoRow,
         records > 0 => records' > 0,
         stage'[p] \in {"inserting", "reading", "reconciling"} =>
           /\ records' > 0
           /\ input'[p] \in [status : {"sent"}, updatedAt : Time],
         stage'[p] \in {"reading", "reconciling"} => row' # NoRow,
         stage'[p] = "reconciling" =>
           seen'[p] # NoRow /\ input'[p].updatedAt <= seen'[p].updatedAt,
         stage'[p] \in {"comparing", "committing"} => input'[p] \in Event
  PROVE  HandInv'
BY DEF HandInv, StepOf

LEMMA ReportedKept ==
  ASSUME ReportedInv, NEW p \in Process, StepOf(p), events \subseteq events',
         Reported(row)', Reported(seen[p])'
  PROVE  ReportedInv'
<1>1. ASSUME NEW q \in Process PROVE Reported(seen[q])'
  <2>1. CASE q = p
    BY <2>1
  <2>2. CASE q # p
    BY <2>2 DEF ReportedInv, Reported, StepOf
  <2> QED
    BY <2>1, <2>2
<1> QED
  BY <1>1 DEF ReportedInv

LEMMA AloneBefore ==
  ASSUME AloneInv, Undisturbed, NEW p \in Process, stage[p] # "idle"
  PROVE  (\A q \in Process \ {p} : stage[q] = "idle") /\ OperationInv(p) /\ FirstRecording(p)
BY DEF AloneInv

LEMMA AloneAfter ==
  ASSUME NEW p \in Process, StepOf(p), \A q \in Process \ {p} : stage[q] = "idle",
         stage'[p] = "idle" => row' = NoRow \/ Upto(row', events'),
         stage'[p] # "idle" => OperationInv(p)' /\ FirstRecording(p)'
  PROVE  AloneInv'
<1>1. \A q \in Process \ {p} : stage'[q] = "idle"
  BY DEF StepOf
<1>2. \A q \in Process : stage'[q] = "idle" => OperationInv(q)' /\ FirstRecording(q)'
  BY DEF OperationInv, FirstRecording
<1>3. \A q \in Process : OperationInv(q)' /\ FirstRecording(q)'
  BY <1>1, <1>2
<1>4. Quiet' => stage'[p] = "idle"
  BY DEF Quiet
<1>5. Quiet' => row' = NoRow \/ Upto(row, events)'
  BY <1>4 DEF Upto
<1> QED
  BY <1>1, <1>3, <1>5 DEF AloneInv

-----------------------------------------------------------------------------
(* The steps *)

LEMMA InvInit == Init => IInv
<1> SUFFICES ASSUME Init PROVE IInv
  OBVIOUS
<1>1. TypeOK
  <2>1. NoRow \in RowValue
    BY DEF RowValue
  <2>2. records \in 0 .. MaxRecords /\ faults \in 0 .. MaxFaults
    BY ProjectionAssumption DEF Init
  <2>3. /\ input \in [Process -> RowValue \cup Event] /\ seen \in [Process -> RowValue]
        /\ todo \in [Process -> SUBSET events]
    BY <2>1 DEF Init
  <2> QED
    BY <2>1, <2>2, <2>3 DEF Init, TypeOK, Stage
<1>2. ReportedInv /\ HandInv
  BY DEF Init, ReportedInv, Reported, HandInv
<1>3. AloneInv
  BY DEF Init, AloneInv, OperationInv, FirstRecording
<1> QED
  BY <1>1, <1>2, <1>3 DEF IInv, Init, NothingYet

LEMMA RecordBeginsKeeps ==
  ASSUME IInv, NEW p \in Process, NEW t \in Time, RecordBegins(p, t)
  PROVE  IInv'
<1> DEFINE i == [status |-> "sent", updatedAt |-> t]
<1>1. i \in RowValue /\ i \in [status : {"sent"}, updatedAt : Time]
  BY DEF RowValue
<1>2. Begin(p, "inserting", i) /\ records' = records + 1 /\ records < MaxRecords
  BY DEF RecordBegins
<1>3. /\ StepOf(p) /\ stage[p] = "idle" /\ stage'[p] = "inserting" /\ input'[p] = i
      /\ UNCHANGED <<stores, seen, todo, faults>>
      /\ overlapped' = (overlapped \/ ~ Quiet)
      /\ stage' \in [Process -> Stage]
      /\ input' \in [Process -> RowValue \cup Event]
  BY <1>1, <1>2, BeginEffect DEF IInv, Stage
<1> HIDE DEF i
<1>4. row' = row /\ events' = events /\ seen' = seen /\ todo' = todo /\ faults' = faults
  BY <1>3 DEF stores
<1>5. records \in Nat /\ records' \in 0 .. MaxRecords /\ records' > 0
  BY <1>2, ProjectionAssumption DEF IInv, TypeOK
<1>6. TypeOK'
  BY <1>3, <1>4, <1>5 DEF IInv, TypeOK
<1>7. ReportedInv'
  BY <1>4 DEF IInv, ReportedInv, Reported
<1>8. HandInv'
  BY <1>1, <1>3, <1>4, <1>5, HandKept DEF IInv
<1>9. AloneInv'
  <2>1. CASE Undisturbed'
    <3>1. Undisturbed /\ Quiet
      BY <1>3, <1>4, <2>1 DEF Undisturbed, IInv, TypeOK
    <3>2. row = NoRow \/ Upto(row, events)
      BY <3>1 DEF IInv, AloneInv
    <3>3. OperationInv(p)'
      BY <1>3, <1>4, <3>2 DEF OperationInv, Upto
    <3>4. FirstRecording(p)'
      <4>1. records' <= 1 => row = NoRow
        BY <1>2, <1>5 DEF IInv, NothingYet
      <4> QED
        BY <1>3, <1>4, <4>1 DEF FirstRecording
    <3> QED
      BY <1>3, <3>1, <3>3, <3>4, AloneAfter DEF Quiet
  <2>2. CASE ~ Undisturbed'
    BY <2>2 DEF AloneInv
  <2> QED
    BY <2>1, <2>2
<1> QED
  BY <1>5, <1>6, <1>7, <1>8, <1>9 DEF IInv, NothingYet, StepOf

LEMMA AppendBeginsKeeps ==
  ASSUME IInv, NEW p \in Process, NEW e \in Event, AppendBegins(p, e)
  PROVE  IInv'
<1>1. Begin(p, "comparing", e) /\ records' = records
  BY DEF AppendBegins
<1>2. /\ StepOf(p) /\ stage[p] = "idle" /\ stage'[p] = "comparing" /\ input'[p] = e
      /\ UNCHANGED <<stores, seen, todo, faults>>
      /\ overlapped' = (overlapped \/ ~ Quiet)
      /\ stage' \in [Process -> Stage]
      /\ input' \in [Process -> RowValue \cup Event]
  BY <1>1, BeginEffect DEF IInv, Stage
<1>3. row' = row /\ events' = events /\ seen' = seen /\ todo' = todo /\ faults' = faults
  BY <1>2 DEF stores
<1>4. TypeOK'
  BY <1>1, <1>2, <1>3 DEF IInv, TypeOK
<1>5. ReportedInv'
  BY <1>3 DEF IInv, ReportedInv, Reported
<1>6. HandInv'
  BY <1>1, <1>2, <1>3, HandKept DEF IInv
<1>7. AloneInv'
  <2>1. CASE Undisturbed'
    <3>1. Undisturbed /\ Quiet
      BY <1>2, <1>3, <2>1 DEF Undisturbed, IInv, TypeOK
    <3>2. row = NoRow \/ Upto(row, events)
      BY <3>1 DEF IInv, AloneInv
    <3>3. OperationInv(p)' /\ FirstRecording(p)'
      BY <1>2, <1>3, <3>2 DEF OperationInv, Upto, FirstRecording
    <3> QED
      BY <1>2, <3>1, <3>3, AloneAfter DEF Quiet
  <2>2. CASE ~ Undisturbed'
    BY <2>2 DEF AloneInv
  <2> QED
    BY <2>1, <2>2
<1> QED
  BY <1>1, <1>3, <1>4, <1>5, <1>6, <1>7 DEF IInv, NothingYet, StepOf

LEMMA RecordInsertsKeeps ==
  ASSUME IInv, NEW p \in Process, RecordInserts(p)
  PROVE  IInv'
<1>1. /\ stage[p] = "inserting" /\ events' = events
      /\ row' = IF row = NoRow THEN input[p] ELSE row
      /\ Proceed(p, "reading", NoRow, {})
  BY DEF RecordInserts
<1>2. NoRow \in RowValue /\ {} \in SUBSET events
  BY DEF RowValue
<1>3. /\ StepOf(p) /\ stage'[p] = "reading" /\ seen'[p] = NoRow
      /\ UNCHANGED <<input, records, faults, overlapped>>
      /\ stage' \in [Process -> Stage]
      /\ seen' \in [Process -> RowValue]
      /\ todo' \in [Process -> SUBSET events]
  BY <1>1, <1>2, ProceedEffect DEF IInv, Stage
<1>4. input[p] \in [status : {"sent"}, updatedAt : Time] /\ records > 0
  BY <1>1 DEF IInv, HandInv
<1>5. input[p].status = "sent" /\ input[p].updatedAt # 0 /\ input[p] \in RowValue
  BY <1>4 DEF RowValue, Time
<1>6. row' \in RowValue /\ row' # NoRow
  BY <1>1, <1>5 DEF IInv, TypeOK, NoRow
<1>7. TypeOK'
  BY <1>1, <1>3, <1>6 DEF IInv, TypeOK
<1>8. ReportedInv'
  <2>1. Reported(row)' /\ Reported(seen[p])'
    BY <1>1, <1>3, <1>5 DEF IInv, ReportedInv, Reported
  <2> QED
    BY <1>1, <1>3, <2>1, ReportedKept DEF IInv
<1>9. HandInv'
  BY <1>3, <1>4, <1>6, HandKept DEF IInv
<1>10. AloneInv'
  <2>1. CASE Undisturbed'
    <3>1. Undisturbed
      BY <1>3, <2>1 DEF Undisturbed
    <3>2. (\A q \in Process \ {p} : stage[q] = "idle") /\ OperationInv(p) /\ FirstRecording(p)
      BY <1>1, <3>1, AloneBefore DEF IInv
    <3>3. row' = input'[p] \/ Upto(row', events')
      BY <1>1, <1>3, <3>2 DEF OperationInv
    <3>4. OperationInv(p)'
      BY <1>3, <3>3 DEF OperationInv, Upto
    <3>5. FirstRecording(p)'
      BY <1>1, <1>3, <3>2 DEF FirstRecording
    <3> QED
      BY <1>3, <3>2, <3>4, <3>5, AloneAfter
  <2>2. CASE ~ Undisturbed'
    BY <2>2 DEF AloneInv
  <2> QED
    BY <2>1, <2>2
<1> QED
  BY <1>3, <1>4, <1>7, <1>8, <1>9, <1>10 DEF IInv, TypeOK, NothingYet, StepOf

LEMMA RecordReadsKeeps ==
  ASSUME IInv, NEW p \in Process, RecordReads(p)
  PROVE  IInv'
<1>1. /\ stage[p] = "reading" /\ events' = events /\ row' = row
      /\ Proceed(p, "reconciling", input[p], events)
  BY DEF RecordReads, stores
<1>2. row # NoRow /\ records > 0 /\ input[p] \in [status : {"sent"}, updatedAt : Time]
  BY <1>1 DEF IInv, HandInv
<1>3. /\ input[p].status = "sent" /\ input[p].updatedAt # 0 /\ input[p].updatedAt \in Nat
      /\ input[p] \in RowValue
  BY <1>2 DEF RowValue, Time
<1>4. /\ StepOf(p) /\ stage'[p] = "reconciling" /\ seen'[p] = input[p] /\ todo'[p] = events
      /\ UNCHANGED <<input, records, faults, overlapped>>
      /\ stage' \in [Process -> Stage]
      /\ seen' \in [Process -> RowValue]
      /\ todo' \in [Process -> SUBSET events]
  BY <1>1, <1>3, ProceedEffect DEF IInv, Stage
<1>5. TypeOK'
  BY <1>1, <1>4 DEF IInv, TypeOK
<1>6. ReportedInv'
  <2>1. Reported(row)' /\ Reported(seen[p])'
    BY <1>1, <1>3, <1>4 DEF IInv, ReportedInv, Reported
  <2> QED
    BY <1>1, <1>4, <2>1, ReportedKept DEF IInv
<1>7. HandInv'
  <2>1. seen'[p] # NoRow
    BY <1>3, <1>4 DEF NoRow
  <2>2. input'[p].updatedAt <= seen'[p].updatedAt
    BY <1>3, <1>4
  <2> QED
    BY <1>1, <1>2, <1>4, <2>1, <2>2, HandKept DEF IInv
<1>8. AloneInv'
  <2>1. CASE Undisturbed'
    <3>1. Undisturbed
      BY <1>4, <2>1 DEF Undisturbed
    <3>2. (\A q \in Process \ {p} : stage[q] = "idle") /\ OperationInv(p) /\ FirstRecording(p)
      BY <1>1, <3>1, AloneBefore DEF IInv
    <3>3. OperationInv(p)'
      BY <1>1, <1>4, <3>2 DEF OperationInv, Upto
    <3>4. FirstRecording(p)'
      BY <1>1, <1>4, <3>2 DEF FirstRecording
    <3> QED
      BY <1>4, <3>2, <3>3, <3>4, AloneAfter
  <2>2. CASE ~ Undisturbed'
    BY <2>2 DEF AloneInv
  <2> QED
    BY <2>1, <2>2
<1> QED
  BY <1>1, <1>2, <1>4, <1>5, <1>6, <1>7, <1>8 DEF IInv, NothingYet, StepOf

LEMMA RecordComparesKeeps ==
  ASSUME IInv, NEW p \in Process, RecordCompares(p)
  PROVE  IInv'
<1>1. PICK e \in todo[p] :
        Proceed(p, "reconciling", Absorb(seen[p], e), todo[p] \ {e})
  BY DEF RecordCompares
<1>2. stage[p] = "reconciling" /\ events' = events /\ row' = row
  BY DEF RecordCompares, stores
<1>3. /\ row # NoRow /\ records > 0 /\ input[p] \in [status : {"sent"}, updatedAt : Time]
      /\ seen[p] # NoRow /\ input[p].updatedAt <= seen[p].updatedAt
  BY <1>2 DEF IInv, HandInv
<1>4. e \in Event /\ e \in events /\ seen[p] \in RowValue /\ todo[p] \in SUBSET events
  BY DEF IInv, TypeOK
<1> DEFINE r == Absorb(seen[p], e)
<1>5. r \in RowValue /\ r # NoRow
  BY <1>3, <1>4, AbsorbType
<1>6. /\ Level(seen[p].status) <= Level(r.status) /\ Level(e.status) <= Level(r.status)
      /\ seen[p].updatedAt <= r.updatedAt /\ r.status \in {seen[p].status, e.status}
  BY <1>4, AbsorbKeeps
<1>7. Proceed(p, "reconciling", r, todo[p] \ {e})
  BY <1>1
<1> HIDE DEF r
<1>8. /\ StepOf(p) /\ stage'[p] = "reconciling" /\ seen'[p] = r /\ todo'[p] = todo[p] \ {e}
      /\ UNCHANGED <<input, records, faults, overlapped>>
      /\ stage' \in [Process -> Stage]
      /\ seen' \in [Process -> RowValue]
      /\ todo' \in [Process -> SUBSET events]
  BY <1>4, <1>5, <1>7, ProceedEffect DEF IInv, Stage
<1>9. TypeOK'
  BY <1>2, <1>8 DEF IInv, TypeOK
<1>10. ReportedInv'
  <2>1. Reported(seen[p])
    BY DEF IInv, ReportedInv
  <2>2. Reported(seen[p])'
    BY <1>2, <1>3, <1>4, <1>6, <1>8, <2>1 DEF Reported
  <2>3. Reported(row)'
    BY <1>2 DEF IInv, ReportedInv, Reported
  <2> QED
    BY <1>2, <1>8, <2>2, <2>3, ReportedKept DEF IInv
<1>11. HandInv'
  <2>1. input[p].updatedAt \in Nat /\ seen[p].updatedAt \in Nat /\ r.updatedAt \in Nat
    BY <1>3, <1>4, <1>5 DEF RowValue, NoRow, Time
  <2>2. input'[p].updatedAt <= seen'[p].updatedAt
    BY <1>3, <1>6, <1>8, <2>1
  <2> QED
    BY <1>2, <1>3, <1>5, <1>8, <2>2, HandKept DEF IInv
<1>12. AloneInv'
  <2>1. CASE Undisturbed'
    <3>1. Undisturbed
      BY <1>8, <2>1 DEF Undisturbed
    <3>2. (\A q \in Process \ {p} : stage[q] = "idle") /\ OperationInv(p) /\ FirstRecording(p)
      BY <1>2, <3>1, AloneBefore DEF IInv
    <3>3. Upto(seen'[p], events' \ todo'[p])
      <4> SUFFICES ASSUME NEW f \in events \ (todo[p] \ {e})
                   PROVE  Level(f.status) <= Level(r.status)
        BY <1>2, <1>8 DEF Upto
      <4>1. CASE f = e
        BY <1>6, <4>1
      <4>2. CASE f # e
        BY <1>2, <1>6, <3>2, <4>2, LevelIsNat DEF OperationInv, Upto
      <4> QED
        BY <4>1, <4>2
    <3>4. OperationInv(p)'
      BY <1>2, <1>8, <3>2, <3>3 DEF OperationInv, Upto
    <3>5. FirstRecording(p)'
      BY <1>2, <1>8, <3>2 DEF FirstRecording
    <3> QED
      BY <1>8, <3>2, <3>4, <3>5, AloneAfter
  <2>2. CASE ~ Undisturbed'
    BY <2>2 DEF AloneInv
  <2> QED
    BY <2>1, <2>2
<1> QED
  BY <1>2, <1>3, <1>8, <1>9, <1>10, <1>11, <1>12 DEF IInv, NothingYet, StepOf

LEMMA RecordUpdatesKeeps ==
  ASSUME IInv, NEW p \in Process, RecordUpdates(p)
  PROVE  IInv'
<1>1. /\ stage[p] = "reconciling" /\ todo[p] = {} /\ events' = events /\ faults' = faults
      /\ row' = IF seen[p] # input[p] THEN seen[p] ELSE row
      /\ End(p)
  BY DEF RecordUpdates
<1>2. /\ StepOf(p) /\ stage'[p] = "idle" /\ seen'[p] = NoRow
      /\ records' = records /\ overlapped' = overlapped
      /\ stage' \in [Process -> Stage]
      /\ input' \in [Process -> RowValue \cup Event]
      /\ seen' \in [Process -> RowValue]
      /\ todo' \in [Process -> SUBSET events]
  BY <1>1, EndEffect DEF IInv
<1>3. row # NoRow /\ seen[p] # NoRow /\ records > 0 /\ seen[p] \in RowValue
  BY <1>1 DEF IInv, HandInv, TypeOK
<1>4. row' \in RowValue /\ row' # NoRow
  BY <1>1, <1>3 DEF IInv, TypeOK
<1>5. TypeOK'
  BY <1>1, <1>2, <1>4 DEF IInv, TypeOK
<1>6. ReportedInv'
  <2>1. Reported(row)' /\ Reported(seen[p])'
    BY <1>1, <1>2 DEF IInv, ReportedInv, Reported
  <2> QED
    BY <1>1, <1>2, <2>1, ReportedKept DEF IInv
<1>7. HandInv'
  BY <1>2, <1>4, HandKept DEF IInv
<1>8. AloneInv'
  <2>1. CASE Undisturbed'
    <3>1. Undisturbed
      BY <1>1, <1>2, <2>1 DEF Undisturbed
    <3>2. (\A q \in Process \ {p} : stage[q] = "idle") /\ OperationInv(p)
      BY <1>1, <3>1, AloneBefore DEF IInv
    <3>3. Upto(seen[p], events) /\ (row = input[p] \/ Upto(row, events))
      BY <1>1, <3>2 DEF OperationInv, Upto
    <3>4. Upto(row', events')
      BY <1>1, <3>3 DEF Upto
    <3> QED
      BY <1>2, <3>2, <3>4, AloneAfter
  <2>2. CASE ~ Undisturbed'
    BY <2>2 DEF AloneInv
  <2> QED
    BY <2>1, <2>2
<1> QED
  BY <1>2, <1>3, <1>5, <1>6, <1>7, <1>8 DEF IInv, TypeOK, NothingYet, StepOf

LEMMA AppendReadsKeeps ==
  ASSUME IInv, NEW p \in Process, AppendReads(p)
  PROVE  IInv'
<1>1. /\ stage[p] = "comparing" /\ events' = events /\ row' = row
      /\ Proceed(p, "committing", row, {})
  BY DEF AppendReads, stores
<1>2. row \in RowValue /\ {} \in SUBSET events /\ input[p] \in Event
  BY <1>1 DEF IInv, TypeOK, HandInv
<1>3. /\ StepOf(p) /\ stage'[p] = "committing" /\ seen'[p] = row
      /\ UNCHANGED <<input, records, faults, overlapped>>
      /\ stage' \in [Process -> Stage]
      /\ seen' \in [Process -> RowValue]
      /\ todo' \in [Process -> SUBSET events]
  BY <1>1, <1>2, ProceedEffect DEF IInv, Stage
<1>4. TypeOK'
  BY <1>1, <1>3 DEF IInv, TypeOK
<1>5. ReportedInv'
  <2>1. Reported(row)' /\ Reported(seen[p])'
    BY <1>1, <1>3 DEF IInv, ReportedInv, Reported
  <2> QED
    BY <1>1, <1>3, <2>1, ReportedKept DEF IInv
<1>6. HandInv'
  BY <1>1, <1>2, <1>3, HandKept DEF IInv
<1>7. AloneInv'
  <2>1. CASE Undisturbed'
    <3>1. Undisturbed
      BY <1>3, <2>1 DEF Undisturbed
    <3>2. (\A q \in Process \ {p} : stage[q] = "idle") /\ OperationInv(p)
      BY <1>1, <3>1, AloneBefore DEF IInv
    <3>3. OperationInv(p)' /\ FirstRecording(p)'
      BY <1>1, <1>3, <3>2 DEF OperationInv, FirstRecording, Upto
    <3> QED
      BY <1>3, <3>2, <3>3, AloneAfter
  <2>2. CASE ~ Undisturbed'
    BY <2>2 DEF AloneInv
  <2> QED
    BY <2>1, <2>2
<1> QED
  BY <1>1, <1>3, <1>4, <1>5, <1>6, <1>7 DEF IInv, NothingYet, StepOf

\* What a commit makes of the row, and of the events.
LEMMA CommitEffect ==
  ASSUME IInv, NEW p \in Process, AppendCommits(p)
  PROVE  /\ input[p] \in Event /\ events' = events \cup {input[p]}
         /\ \/ row' = row /\ (seen[p] = NoRow \/ Level(input[p].status) <= Level(seen[p].status))
            \/ /\ row' = Absorb(seen[p], input[p]) /\ seen[p] # NoRow
               /\ row' \in RowValue /\ row' # NoRow /\ row'.status = input[p].status
<1>1. stage[p] = "committing" /\ events' = events \cup {input[p]} /\ seen[p] \in RowValue
  BY DEF AppendCommits, IInv, TypeOK
<1>2. input[p] \in Event
  BY <1>1 DEF IInv, HandInv
<1>3. CASE seen[p] # NoRow /\ ShouldAdvance(input[p].status, seen[p].status)
  <2>1. row' = Absorb(seen[p], input[p])
    BY <1>3 DEF AppendCommits
  <2>2. Absorb(seen[p], input[p]).status = input[p].status
    BY <1>3 DEF Absorb
  <2> QED
    BY <1>1, <1>2, <1>3, <2>1, <2>2, AbsorbType
<1>4. CASE ~ (seen[p] # NoRow /\ ShouldAdvance(input[p].status, seen[p].status))
  <2>1. row' = row
    BY <1>4 DEF AppendCommits
  <2> QED
    BY <1>1, <1>2, <1>4, <2>1, AdvanceFollowsLevel
<1> QED
  BY <1>3, <1>4

LEMMA AppendCommitsKeeps ==
  ASSUME IInv, NEW p \in Process, AppendCommits(p)
  PROVE  IInv'
<1>1. stage[p] = "committing" /\ End(p) /\ faults' = faults
  BY DEF AppendCommits
<1>2. /\ StepOf(p) /\ stage'[p] = "idle" /\ seen'[p] = NoRow
      /\ records' = records /\ overlapped' = overlapped
      /\ stage' \in [Process -> Stage]
      /\ input' \in [Process -> RowValue \cup Event]
      /\ seen' \in [Process -> RowValue]
      /\ todo' \in [Process -> SUBSET events]
  BY <1>1, EndEffect DEF IInv
<1>3. /\ input[p] \in Event /\ events' = events \cup {input[p]}
      /\ \/ row' = row /\ (seen[p] = NoRow \/ Level(input[p].status) <= Level(seen[p].status))
         \/ /\ row' = Absorb(seen[p], input[p]) /\ seen[p] # NoRow
            /\ row' \in RowValue /\ row' # NoRow /\ row'.status = input[p].status
  BY CommitEffect
<1>4. TypeOK'
  <2>1. todo' \in [Process -> SUBSET events']
    BY <1>2, <1>3
  <2> QED
    BY <1>1, <1>2, <1>3, <2>1 DEF IInv, TypeOK
<1>5. ReportedInv'
  <2>1. Reported(row)' /\ Reported(seen[p])'
    BY <1>2, <1>3 DEF IInv, ReportedInv, Reported
  <2> QED
    BY <1>2, <1>3, <2>1, ReportedKept DEF IInv
<1>6. HandInv'
  <2>1. row # NoRow => row' # NoRow
    BY <1>3
  <2> QED
    BY <1>2, <2>1, HandKept DEF IInv
<1>7. AloneInv'
  <2>1. CASE Undisturbed'
    <3>1. Undisturbed
      BY <1>1, <1>2, <2>1 DEF Undisturbed
    <3>2. (\A q \in Process \ {p} : stage[q] = "idle") /\ OperationInv(p)
      BY <1>1, <3>1, AloneBefore DEF IInv
    <3>3. seen[p] = row /\ (row = NoRow \/ Upto(row, events))
      BY <1>1, <3>2 DEF OperationInv
    <3>4. CASE row' # row
      <4>1. row \in RowValue /\ row' = Absorb(row, input[p])
        BY <1>3, <3>3, <3>4 DEF IInv, TypeOK
      <4>2. Level(row.status) <= Level(row'.status) /\ Level(input[p].status) <= Level(row'.status)
        BY <1>3, <4>1, AbsorbKeeps
      <4>3. Upto(row', events')
        <5> SUFFICES ASSUME NEW e \in events \cup {input[p]}
                     PROVE  Level(e.status) <= Level(row'.status)
          BY <1>3 DEF Upto
        <5>1. e = input[p] \/ Level(e.status) <= Level(row.status)
          BY <1>3, <3>3, <3>4 DEF Upto
        <5>2. /\ Level(e.status) \in Nat /\ Level(row.status) \in Nat
              /\ Level(row'.status) \in Nat
          BY LevelIsNat
        <5> QED
          BY <4>2, <5>1, <5>2
      <4> QED
        BY <1>2, <3>2, <4>3, AloneAfter
    <3>5. CASE row' = row
      <4>1. row' = NoRow \/ Upto(row', events')
        <5>1. CASE row = NoRow
          BY <3>5, <5>1
        <5>2. CASE row # NoRow
          <6>1. Level(input[p].status) <= Level(row.status)
            <7>1. CASE Level(input[p].status) <= Level(seen[p].status)
              BY <3>3, <7>1
            <7>2. CASE row'.status = input[p].status
              BY <3>5, <7>2, LevelIsNat
            <7> QED
              BY <1>3, <3>3, <5>2, <7>1, <7>2
          <6> QED
            BY <1>3, <3>3, <3>5, <5>2, <6>1 DEF Upto
        <5> QED
          BY <5>1, <5>2
      <4> QED
        BY <1>2, <3>2, <4>1, AloneAfter
    <3> QED
      BY <3>4, <3>5
  <2>2. CASE ~ Undisturbed'
    BY <2>2 DEF AloneInv
  <2> QED
    BY <2>1, <2>2
<1>8. NothingYet'
  BY <1>2, <1>3 DEF IInv, NothingYet, StepOf
<1> QED
  BY <1>4, <1>5, <1>6, <1>7, <1>8 DEF IInv

LEMMA FailKeeps ==
  ASSUME IInv, NEW p \in Process, Fail(p)
  PROVE  IInv'
<1>1. faults < MaxFaults /\ faults' = faults + 1 /\ End(p) /\ row' = row /\ events' = events
  BY DEF Fail, stores
<1>2. /\ StepOf(p) /\ stage'[p] = "idle" /\ seen'[p] = NoRow
      /\ records' = records /\ overlapped' = overlapped
      /\ stage' \in [Process -> Stage]
      /\ input' \in [Process -> RowValue \cup Event]
      /\ seen' \in [Process -> RowValue]
      /\ todo' \in [Process -> SUBSET events]
  BY <1>1, EndEffect DEF IInv
<1>3. faults' \in 0 .. MaxFaults /\ faults' # 0
  BY <1>1, ProjectionAssumption DEF IInv, TypeOK
<1>4. TypeOK'
  BY <1>1, <1>2, <1>3 DEF IInv, TypeOK
<1>5. ReportedInv'
  <2>1. Reported(row)' /\ Reported(seen[p])'
    BY <1>1, <1>2 DEF IInv, ReportedInv, Reported
  <2> QED
    BY <1>1, <1>2, <2>1, ReportedKept DEF IInv
<1>6. HandInv'
  BY <1>1, <1>2, HandKept DEF IInv
<1>7. AloneInv'
  BY <1>3 DEF AloneInv, Undisturbed
<1> QED
  BY <1>1, <1>2, <1>4, <1>5, <1>6, <1>7 DEF IInv, NothingYet, StepOf

LEMMA InvStep == IInv /\ [Next]_vars => IInv'
<1> SUFFICES ASSUME IInv, [Next]_vars PROVE IInv'
  OBVIOUS
<1>1. CASE UNCHANGED vars
  <2>1. TypeOK' /\ ReportedInv' /\ HandInv' /\ NothingYet'
    BY <1>1 DEF IInv, vars, stores, TypeOK, ReportedInv, Reported, HandInv, NothingYet
  <2>2. AloneInv'
    BY <1>1 DEF IInv, vars, AloneInv, Undisturbed, Quiet, OperationInv, FirstRecording, Upto
  <2> QED
    BY <2>1, <2>2 DEF IInv
<1> QED
  BY <1>1, RecordBeginsKeeps, RecordInsertsKeeps, RecordReadsKeeps, RecordComparesKeeps,
     RecordUpdatesKeeps, AppendBeginsKeeps, AppendReadsKeeps, AppendCommitsKeeps, FailKeeps
  DEF Next
-----------------------------------------------------------------------------
(* Theorems *)

\* What an operation has in hand is reported, typed, and, while nothing has failed or
\* overlapped, what is there.
THEOREM Invariance == Spec => []IInv
BY InvInit, InvStep, PTL DEF Spec

\* A row at rest is behind no stored event when operations were let finish, one at a time,
\* however often the message is recorded; and never ahead of what was reported, whatever
\* overlaps or fails (recordMessage, appendMessageStatus).
THEOREM RowIsTrue == Spec => []RowTellsItsEvents
<1>1. IInv => RowTellsItsEvents
  <2> SUFFICES ASSUME IInv PROVE RowTellsItsEvents
    OBVIOUS
  <2>1. NotBehindItsEvents
    BY DEF IInv, AloneInv, NotBehindItsEvents, Upto
  <2>2. NeverAheadOfItsEvents
    BY DEF IInv, ReportedInv, Reported, NeverAheadOfItsEvents
  <2> QED
    BY <2>1, <2>2 DEF IInv, RowTellsItsEvents
<1> QED
  BY <1>1, Invariance, PTL

LEMMA UpdatedAtStep ==
  ASSUME IInv, [Next]_vars, Undisturbed', records <= 1
  PROVE  row'.updatedAt >= row.updatedAt
<1>1. row \in RowValue /\ row.updatedAt \in Nat /\ faults \in Nat
  BY DEF IInv, TypeOK, RowValue, NoRow, Time
<1>2. CASE row' = row
  BY <1>1, <1>2
<1>3. ASSUME NEW p \in Process, RecordInserts(p), row' # row
      PROVE  row'.updatedAt >= row.updatedAt
  <2>1. row = NoRow /\ row' = input[p] /\ input[p] \in [status : {"sent"}, updatedAt : Time]
    BY <1>3 DEF RecordInserts, IInv, HandInv
  <2>2. row'.updatedAt \in Nat /\ row.updatedAt = 0
    BY <2>1 DEF Time, NoRow
  <2> QED
    BY <2>2
<1>4. ASSUME NEW p \in Process, RecordUpdates(p), row' # row
      PROVE  row'.updatedAt >= row.updatedAt
  <2>1. stage[p] = "reconciling" /\ row' = seen[p]
    BY <1>4 DEF RecordUpdates
  <2>2. Undisturbed
    BY <1>4 DEF RecordUpdates, End, Undisturbed
  <2>3. row = input[p] /\ input[p].updatedAt <= seen[p].updatedAt
    BY <2>1, <2>2, AloneBefore DEF IInv, FirstRecording, HandInv
  <2>4. seen[p].updatedAt \in Nat
    BY DEF IInv, TypeOK, RowValue, NoRow, Time
  <2> QED
    BY <1>1, <2>1, <2>3, <2>4
<1>5. ASSUME NEW p \in Process, AppendCommits(p), row' # row
      PROVE  row'.updatedAt >= row.updatedAt
  <2>1. Undisturbed /\ stage[p] = "committing"
    BY <1>5 DEF AppendCommits, End, Undisturbed
  <2>2. seen[p] = row
    BY <2>1, AloneBefore DEF IInv, OperationInv
  <2>3. row' = Absorb(row, input[p]) /\ input[p] \in Event /\ row' \in RowValue
    BY <1>5, <2>2, CommitEffect
  <2>4. row.updatedAt <= row'.updatedAt
    BY <1>1, <2>3, AbsorbKeeps
  <2>5. row'.updatedAt \in Nat
    BY <2>3 DEF RowValue, NoRow, Time
  <2> QED
    BY <1>1, <2>4, <2>5
<1>6. \/ row' = row
      \/ \E p \in Process : RecordInserts(p) \/ RecordUpdates(p) \/ AppendCommits(p)
  BY DEF Next, vars, RecordBegins, Begin, RecordReads, RecordCompares, AppendBegins,
         AppendReads, Fail, stores
<1> QED
  BY <1>2, <1>3, <1>4, <1>5, <1>6

\* No event, late or early, moves the time of the last change back (reconcileStoredStatus,
\* appendMessageStatus).
THEOREM TimeOnlyAdvances == Spec => UpdatedAtIsMonotone
<1>1. IInv /\ [Next]_vars =>
        [Undisturbed' /\ records <= 1 => row'.updatedAt >= row.updatedAt]_vars
  BY UpdatedAtStep
<1> QED
  BY <1>1, Invariance, PTL DEF Spec, UpdatedAtIsMonotone
=============================================================================
