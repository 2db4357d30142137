------------------------ MODULE SchemaMigration_proofs ------------------------
(***************************************************************************)
(* Proofs about SchemaMigration, for any number of calls and releases.     *)
(*                                                                         *)
(* The argument: a call between the lock and its release is the holder     *)
(* the table names, so that nobody else applies anything; what the holder  *)
(* has validated and walked past therefore stays true.                     *)
(***************************************************************************)
EXTENDS SchemaMigration, TLAPS

\* The index of a loop, for the provers.
LEMMA LoopIndex ==
  ASSUME TypeOK, NEW c \in Call
  PROVE  next[c] \in Nat /\ Known[c] \in Nat /\ 1 <= next[c] /\ next[c] <= Known[c] + 1
<1>1. Known[c] \in Nat /\ next[c] \in Nat
  BY SchemaMigrationAssumption DEF TypeOK
<1>2. next[c] \in 1..(Known[c] + 1)
  BY DEF TypeOK
<1> QED
  BY <1>1, <1>2

\* How far the loop of a call has come: what lies behind it is applied.
LoopInv ==
  \A c \in Call :
    /\ stage[c] \in {"new", "locking", "validating"} => next[c] = 1
    /\ stage[c] \in {"checking", "applying"} => 1..(next[c] - 1) \subseteq applied
    /\ stage[c] = "applying" => next[c] <= Known[c]

\* A call reports only what is applied.
ReportInv == \A c \in Call : report[c] \subseteq applied

IInv ==
  /\ TypeOK /\ OneMigratorAtATime /\ NeverOnANewerSchema /\ AppliedInOrder
  /\ OkMeansCurrent /\ ReportedOnce /\ LoopInv /\ ReportInv
-----------------------------------------------------------------------------
LEMMA InvInit == Init => IInv
BY SchemaMigrationAssumption
DEF Init, IInv, TypeOK, OneMigratorAtATime, NeverOnANewerSchema, AppliedInOrder, OkMeansCurrent,
    ReportedOnce, LoopInv, ReportInv, Stage, Outcome, Migrating

\* A step that leaves the schema and the loops alone, and brings no call into
\* the section that needs the lock, keeps the invariant.
LEMMA OutsideKeeps ==
  ASSUME IInv, TypeOK', NEW c \in Call,
         UNCHANGED <<next, report>>, applied' = applied,
         \A d \in Call \ {c} : stage'[d] = stage[d],
         \A d \in Call \ {c} : outcome'[d] = outcome[d],
         outcome'[c] # "ok" \/ outcome'[c] = outcome[c],
         stage'[c] \in {"releasing", "ended", "dead"} \/ (stage[c] = "new" /\ stage'[c] = "locking"),
         \A d \in Call \ {c} : lock = d => lock' = d
  PROVE  IInv'
<1>1. OneMigratorAtATime'
  BY DEF IInv, TypeOK, OneMigratorAtATime, Migrating
<1>2. NeverOnANewerSchema' /\ AppliedInOrder' /\ OkMeansCurrent' /\ ReportedOnce'
  BY DEF IInv, TypeOK, NeverOnANewerSchema, AppliedInOrder, OkMeansCurrent, ReportedOnce
<1>3. LoopInv' /\ ReportInv'
  BY DEF IInv, TypeOK, LoopInv, ReportInv
<1> QED
  BY <1>1, <1>2, <1>3 DEF IInv

\* A call that concludes with an error, or ends, is such a step.
LEMMA LeavingKeeps ==
  ASSUME IInv, NEW c \in Call,
         \/ Prepare(c) \/ PrepareThrows(c) \/ LockIsHeld(c) \/ LockThrows(c) \/ SelectThrows(c)
         \/ Release(c) \/ ReleaseThrows(c) \/ Crash(c)
  PROVE  IInv'
<1> USE SchemaMigrationAssumption
<1>1. \E s \in {"locking", "releasing", "ended", "dead"}, o \in (Outcome \ {"ok"}) \cup {outcome[c]} :
        /\ stage' = [stage EXCEPT ![c] = s] /\ outcome' = [outcome EXCEPT ![c] = o]
        /\ s = "locking" => stage[c] = "new"
  <2> USE DEF IInv, TypeOK, MoveTo, Conclude, Unmapped, LockFault, Outcome
  <2>1. CASE Prepare(c)
    BY <2>1 DEF Prepare
  <2>2. CASE PrepareThrows(c)
    BY <2>2 DEF PrepareThrows
  <2>3. CASE LockIsHeld(c)
    BY <2>3 DEF LockIsHeld
  <2>4. CASE LockThrows(c)
    BY <2>4 DEF LockThrows
  <2>5. CASE SelectThrows(c)
    BY <2>5 DEF SelectThrows
  <2>6. CASE Release(c) \/ ReleaseThrows(c) \/ Crash(c)
    BY <2>6 DEF Release, ReleaseThrows, Crash
  <2> QED
    BY <2>1, <2>2, <2>3, <2>4, <2>5, <2>6
<1>2. PICK s \in {"locking", "releasing", "ended", "dead"}, o \in (Outcome \ {"ok"}) \cup {outcome[c]} :
        /\ stage' = [stage EXCEPT ![c] = s] /\ outcome' = [outcome EXCEPT ![c] = o]
        /\ s = "locking" => stage[c] = "new"
  BY <1>1
<1>3. /\ UNCHANGED <<next, report>> /\ applied' = applied
      /\ lock' \in Call \cup {NoHolder} /\ setbacks' \in 0..MaxSetbacks
      /\ \A d \in Call \ {c} : lock = d => lock' = d
  BY DEF Prepare, PrepareThrows, LockIsHeld, LockThrows, SelectThrows, Release, ReleaseThrows, Crash,
         Setback, IInv, TypeOK
<1>4. TypeOK'
  BY <1>2, <1>3 DEF IInv, TypeOK, Stage
<1>5. /\ \A d \in Call \ {c} : stage'[d] = stage[d] /\ outcome'[d] = outcome[d]
      /\ stage'[c] = s /\ outcome'[c] = o
  BY <1>2 DEF IInv, TypeOK
<1> QED
  BY <1>2, <1>3, <1>4, <1>5, OutsideKeeps

LEMMA LockIsTakenKeeps ==
  ASSUME IInv, NEW c \in Call, LockIsTaken(c)
  PROVE  IInv'
<1> USE SchemaMigrationAssumption DEF IInv, LockIsTaken, MoveTo
<1>1. TypeOK' /\ OneMigratorAtATime'
  BY DEF TypeOK, Stage, OneMigratorAtATime, Migrating
<1>2. NeverOnANewerSchema' /\ AppliedInOrder' /\ OkMeansCurrent' /\ ReportedOnce'
  BY DEF TypeOK, NeverOnANewerSchema, AppliedInOrder, OkMeansCurrent, ReportedOnce
<1>3. LoopInv' /\ ReportInv'
  BY DEF TypeOK, LoopInv, ReportInv
<1> QED
  BY <1>1, <1>2, <1>3

LEMMA ValidateKeeps ==
  ASSUME IInv, NEW c \in Call, Validate(c)
  PROVE  IInv'
<1> USE SchemaMigrationAssumption DEF IInv, Validate, Conclude, MoveTo
<1>1. TypeOK' /\ OneMigratorAtATime'
  BY DEF TypeOK, Stage, Outcome, OneMigratorAtATime, Migrating
<1>2. NeverOnANewerSchema' /\ AppliedInOrder' /\ OkMeansCurrent' /\ ReportedOnce'
  BY DEF TypeOK, NeverOnANewerSchema, AppliedInOrder, OkMeansCurrent, ReportedOnce
<1>3. LoopInv' /\ ReportInv'
  BY DEF TypeOK, LoopInv, ReportInv
<1> QED
  BY <1>1, <1>2, <1>3

LEMMA SkipKeeps ==
  ASSUME IInv, NEW c \in Call, Skip(c)
  PROVE  IInv'
<1> USE SchemaMigrationAssumption DEF IInv, Skip
<1>0. next[c] \in Nat /\ Known[c] \in Nat /\ next[c] <= Known[c] /\ next[c] + 1 \in 1..(Known[c] + 1)
  BY LoopIndex
<1>1. TypeOK' /\ OneMigratorAtATime'
  BY <1>0 DEF TypeOK, OneMigratorAtATime
<1>2. NeverOnANewerSchema' /\ AppliedInOrder' /\ OkMeansCurrent' /\ ReportedOnce' /\ ReportInv'
  BY DEF NeverOnANewerSchema, AppliedInOrder, OkMeansCurrent, ReportedOnce, ReportInv
<1>3. LoopInv'
  <2>1. next'[c] = next[c] + 1 /\ \A d \in Call \ {c} : next'[d] = next[d]
    BY DEF TypeOK
  <2>2. 1..(next'[c] - 1) \subseteq applied
    BY <2>1 DEF LoopInv, TypeOK
  <2> QED
    BY <2>1, <2>2 DEF LoopInv, TypeOK
<1> QED
  BY <1>1, <1>2, <1>3

LEMMA IsMissingKeeps ==
  ASSUME IInv, NEW c \in Call, IsMissing(c)
  PROVE  IInv'
<1> USE SchemaMigrationAssumption DEF IInv, IsMissing, MoveTo
<1>1. TypeOK' /\ OneMigratorAtATime'
  BY DEF TypeOK, Stage, OneMigratorAtATime, Migrating
<1>2. NeverOnANewerSchema' /\ AppliedInOrder' /\ OkMeansCurrent' /\ ReportedOnce'
  BY DEF TypeOK, NeverOnANewerSchema, AppliedInOrder, OkMeansCurrent, ReportedOnce
<1>3. LoopInv' /\ ReportInv'
  BY DEF TypeOK, LoopInv, ReportInv
<1> QED
  BY <1>1, <1>2, <1>3

\* The schema grows by the migration the holder is at, and by no other.
LEMMA SchemaGrowsInOrder ==
  ASSUME IInv, NEW c \in Call, stage[c] = "applying", applied' = applied \cup {next[c]}
  PROVE  /\ AppliedInOrder' /\ applied \subseteq applied'
         /\ 1..next[c] \subseteq applied'
         /\ applied' \subseteq 1..Known[c]
         /\ \A d \in Call \ {c} : stage[d] \notin Migrating
<1> USE SchemaMigrationAssumption DEF IInv
<1>1. next[c] \in Nat \ {0} /\ Known[c] \in Nat /\ next[c] <= Known[c]
  BY DEF TypeOK, LoopInv
<1>2. 1..(next[c] - 1) \subseteq applied
  BY DEF LoopInv
<1>3. 1..next[c] \subseteq applied'
  BY <1>1, <1>2
<1>4. AppliedInOrder'
  BY <1>1, <1>3 DEF AppliedInOrder
<1>5. applied' \subseteq 1..Known[c]
  BY <1>1 DEF NeverOnANewerSchema
<1>6. \A d \in Call \ {c} : stage[d] \notin Migrating
  BY DEF OneMigratorAtATime, Migrating
<1> QED
  BY <1>3, <1>4, <1>5, <1>6

LEMMA ApplyKeeps ==
  ASSUME IInv, NEW c \in Call, Apply(c)
  PROVE  IInv'
<1> USE SchemaMigrationAssumption
<1>1. CASE next[c] \in applied
  <2>1. TypeOK'
    BY <1>1 DEF IInv, TypeOK, Apply, Conclude, MoveTo, Stage, Outcome
  <2>2. /\ UNCHANGED <<next, report, lock>> /\ applied' = applied
        /\ stage'[c] = "releasing" /\ outcome'[c] # "ok"
        /\ \A d \in Call \ {c} : stage'[d] = stage[d] /\ outcome'[d] = outcome[d]
    BY <1>1 DEF IInv, TypeOK, Apply, Conclude, MoveTo
  <2> QED
    BY <2>1, <2>2, OutsideKeeps
<1>2. CASE next[c] \notin applied
  <2>0. /\ stage[c] = "applying" /\ applied' = applied \cup {next[c]}
        /\ report' = [report EXCEPT ![c] = @ \cup {next[c]}]
        /\ next' = [next EXCEPT ![c] = @ + 1]
        /\ stage' = [stage EXCEPT ![c] = "checking"]
        /\ UNCHANGED <<outcome, lock, setbacks>>
    BY <1>2 DEF Apply, MoveTo
  <2>1. /\ AppliedInOrder' /\ applied \subseteq applied' /\ 1..next[c] \subseteq applied'
        /\ applied' \subseteq 1..Known[c]
        /\ \A d \in Call \ {c} : stage[d] \notin Migrating
    BY <2>0, SchemaGrowsInOrder
  <2>2. /\ next[c] \in Nat /\ next[c] + 1 \in 1..(Known[c] + 1) /\ Known[c] \in Nat
        /\ next'[c] = next[c] + 1 /\ stage'[c] = "checking"
        /\ \A d \in Call \ {c} : next'[d] = next[d] /\ stage'[d] = stage[d] /\ report'[d] = report[d]
        /\ report'[c] = report[c] \cup {next[c]}
    BY <2>0 DEF IInv, TypeOK, LoopInv
  <2>3. TypeOK'
    <3>1. \A d \in Call : next'[d] \in 1..(Known[d] + 1)
      BY <2>2 DEF IInv, TypeOK
    <3>2. applied' \subseteq Nat
      <4>1. applied \subseteq Nat /\ next[c] \in Nat
        BY <2>2 DEF IInv, TypeOK
      <4> QED
        BY <4>1, <2>0
    <3>5. next' \in [Call -> Nat]
      <4>1. next \in [Call -> Nat] /\ next[c] + 1 \in Nat
        BY <2>2 DEF IInv, TypeOK
      <4> QED
        BY <4>1, <2>0
    <3>4. report' \in [Call -> SUBSET Nat]
      <4>1. report \in [Call -> SUBSET Nat] /\ report[c] \cup {next[c]} \in SUBSET Nat
        BY <2>2 DEF IInv, TypeOK
      <4> QED
        BY <4>1, <2>0
    <3>3. lock' \in Call \cup {NoHolder} /\ stage' \in [Call -> Stage] /\ outcome' \in [Call -> Outcome]
          /\ setbacks' \in 0..MaxSetbacks
      BY <2>0 DEF IInv, TypeOK, Stage
    <3> QED
      BY <3>1, <3>2, <3>3, <3>4, <3>5 DEF TypeOK
  <2>4. OneMigratorAtATime' /\ NeverOnANewerSchema' /\ OkMeansCurrent'
    BY <2>0, <2>1, <2>2 DEF IInv, TypeOK, OneMigratorAtATime, NeverOnANewerSchema, OkMeansCurrent, Migrating
  <2>5. ReportedOnce' /\ ReportInv'
    BY <1>2, <2>0, <2>1, <2>2 DEF IInv, ReportedOnce, ReportInv
  <2>6. LoopInv'
    BY <2>1, <2>2 DEF IInv, LoopInv, Migrating
  <2> QED
    BY <2>1, <2>3, <2>4, <2>5, <2>6 DEF IInv
<1> QED
  BY <1>1, <1>2

LEMMA ApplyThrowsKeeps ==
  ASSUME IInv, NEW c \in Call, ApplyThrows(c)
  PROVE  IInv'
<1> USE SchemaMigrationAssumption
<1>0. /\ stage[c] = "applying" /\ stage' = [stage EXCEPT ![c] = "releasing"]
      /\ outcome' \in [Call -> Outcome] /\ outcome'[c] # "ok"
      /\ \A d \in Call \ {c} : outcome'[d] = outcome[d] /\ stage'[d] = stage[d]
      /\ stage'[c] = "releasing"
      /\ UNCHANGED <<lock, next, report>>
  BY DEF IInv, TypeOK, ApplyThrows, Conclude, MoveTo, Unmapped, Outcome
<1>1. TypeOK'
  BY <1>0 DEF IInv, TypeOK, ApplyThrows, Setback, Stage
<1>2. CASE applied' = applied
  <2>1. outcome'[c] # "ok" /\ stage'[c] = "releasing" /\ UNCHANGED <<next, report, lock>>
    BY <1>0
  <2> QED
    BY <1>0, <1>1, <1>2, <2>1, OutsideKeeps
<1>3. CASE applied' = applied \cup {next[c]}
  <2>1. /\ AppliedInOrder' /\ applied \subseteq applied'
        /\ \A d \in Call \ {c} : stage[d] \notin Migrating
    BY <1>0, <1>3, SchemaGrowsInOrder
  <2>2. OneMigratorAtATime' /\ NeverOnANewerSchema' /\ OkMeansCurrent'
    BY <1>0, <2>1 DEF IInv, TypeOK, OneMigratorAtATime, NeverOnANewerSchema, OkMeansCurrent, Migrating
  <2>3. ReportedOnce' /\ ReportInv' /\ LoopInv'
    BY <1>0, <2>1 DEF IInv, TypeOK, ReportedOnce, ReportInv, LoopInv, Migrating
  <2> QED
    BY <1>1, <2>1, <2>2, <2>3 DEF IInv
<1> QED
  BY <1>2, <1>3 DEF ApplyThrows

LEMMA AllAppliedKeeps ==
  ASSUME IInv, NEW c \in Call, AllApplied(c)
  PROVE  IInv'
<1> USE SchemaMigrationAssumption DEF IInv, AllApplied, Conclude, MoveTo
<1>1. TypeOK' /\ OneMigratorAtATime'
  BY DEF TypeOK, Stage, Outcome, OneMigratorAtATime, Migrating
<1>2. OkMeansCurrent'
  <2>0. next[c] \in Nat /\ Known[c] \in Nat /\ 1..(next[c] - 1) \subseteq applied /\ next[c] = Known[c] + 1
    BY LoopIndex DEF LoopInv
  <2>1. 1..Known[c] \subseteq applied
    BY ONLY <2>0
  <2> QED
    BY <2>1 DEF TypeOK, OkMeansCurrent
<1>3. NeverOnANewerSchema' /\ AppliedInOrder' /\ ReportedOnce'
  BY DEF TypeOK, NeverOnANewerSchema, AppliedInOrder, ReportedOnce
<1>4. LoopInv' /\ ReportInv'
  BY DEF TypeOK, LoopInv, ReportInv
<1> QED
  BY <1>1, <1>2, <1>3, <1>4

LEMMA InvNext == IInv /\ [Next]_vars => IInv'
<1> SUFFICES ASSUME IInv, [Next]_vars PROVE IInv'
  OBVIOUS
<1>1. CASE UNCHANGED vars
  BY <1>1 DEF IInv, TypeOK, OneMigratorAtATime, NeverOnANewerSchema, AppliedInOrder, OkMeansCurrent,
              ReportedOnce, LoopInv, ReportInv, vars
<1>2. CASE Terminated
  BY <1>1, <1>2 DEF Terminated
<1>3. CASE \E c \in Call : Answered(c)
  BY <1>3, LeavingKeeps, LockIsTakenKeeps, ValidateKeeps, SkipKeeps, IsMissingKeeps, ApplyKeeps,
     AllAppliedKeeps DEF Answered
<1>4. CASE \E c \in Call : PrepareThrows(c) \/ LockThrows(c) \/ SelectThrows(c) \/ ReleaseThrows(c)
                           \/ Crash(c)
  BY <1>4, LeavingKeeps
<1>5. CASE \E c \in Call : ApplyThrows(c)
  BY <1>5, ApplyThrowsKeeps
<1> QED
  BY <1>1, <1>2, <1>3, <1>4, <1>5 DEF Next
-----------------------------------------------------------------------------
LEMMA Invariance == Spec => []IInv
BY InvInit, InvNext, PTL DEF Spec

\* The variables keep their types, and no loop runs past the last migration of
\* its release.
THEOREM TypeCorrect == Spec => []TypeOK
BY Invariance, PTL DEF IInv

\* The lock table excludes: however many processes start at once, whatever
\* fails, one call at a time changes the schema.
THEOREM MutualExclusion == Spec => []OneMigratorAtATime
BY Invariance, PTL DEF IInv

\* What a release has compared before its first migration still holds at its last.
THEOREM OldReleasesStayOut == Spec => []NeverOnANewerSchema
BY Invariance, PTL DEF IInv

\* Migrations are applied in order, and a call that returns found or made all of its own.
THEOREM Completeness == Spec => []SchemaIsComplete
<1>1. IInv => SchemaIsComplete
  BY DEF IInv, SchemaIsComplete
<1> QED
  BY <1>1, Invariance, PTL

\* Every applied migration is reported by one call at most.
THEOREM ReportsAreDisjoint == Spec => []ReportedOnce
BY Invariance, PTL DEF IInv

\* Migrators exclude each other in time, by release and in what they report.
THEOREM Exclusion == Spec => []MigratorsExclude
BY MutualExclusion, OldReleasesStayOut, ReportsAreDisjoint, PTL DEF MigratorsExclude

\* Nobody frees the lock of another.
THEOREM LocksAreOwned == Spec => OwnLockOnly
<1>1. IInv /\ [Next]_vars =>
        [\A c \in Call : lock = c /\ lock' # c => stage[c] = "releasing" /\ stage'[c] = "ended"]_vars
  BY SchemaMigrationAssumption
  DEF IInv, TypeOK, Next, Answered, Terminated, Prepare, PrepareThrows, LockIsTaken, LockIsHeld, LockThrows,
      Validate, Skip, IsMissing, Apply, ApplyThrows, SelectThrows, AllApplied, Release, ReleaseThrows,
      Crash, MoveTo, Conclude, vars
<1> QED
  BY <1>1, Invariance, PTL DEF Spec, OwnLockOnly
-----------------------------------------------------------------------------
(* Liveness: a turn of the loop ends. *)

\* Who has the lock while nothing has failed is between taking and giving it back.
HeldInv ==
  \A c \in Call : lock = c /\ setbacks = 0 => stage[c] \in Migrating \cup {"releasing"}

LEMMA HeldStep == IInv /\ HeldInv /\ [Next]_vars => HeldInv'
<1> SUFFICES ASSUME IInv, HeldInv, [Next]_vars PROVE HeldInv'
  OBVIOUS
<1>0. /\ stage \in [Call -> Stage] /\ setbacks \in Nat
  BY SchemaMigrationAssumption DEF IInv, TypeOK
<1>1. Setback => HeldInv'
  BY <1>0 DEF Setback, HeldInv
<1>2. ASSUME NEW c \in Call, Prepare(c) \/ LockIsTaken(c) \/ LockIsHeld(c) \/ Validate(c) PROVE HeldInv'
  BY <1>0, <1>2, SchemaMigrationAssumption
  DEF Prepare, LockIsTaken, LockIsHeld, Validate, Conclude, MoveTo, HeldInv, Migrating
<1>3. ASSUME NEW c \in Call, Skip(c) \/ IsMissing(c) \/ Apply(c) \/ AllApplied(c) PROVE HeldInv'
  BY <1>0, <1>3 DEF Skip, IsMissing, Apply, AllApplied, Conclude, MoveTo, HeldInv, Migrating
<1>4. ASSUME NEW c \in Call, Release(c) PROVE HeldInv'
  BY <1>0, <1>4, SchemaMigrationAssumption DEF Release, MoveTo, HeldInv
<1>5. UNCHANGED vars => HeldInv'
  BY DEF vars, HeldInv
<1> QED
  BY <1>1, <1>2, <1>3, <1>4, <1>5
  DEF Next, Answered, PrepareThrows, LockThrows, SelectThrows, ApplyThrows, ReleaseThrows, Crash, Terminated

LEMMA LocksAreHeld == Spec => [](IInv /\ HeldInv)
<1>1. Init => HeldInv
  BY SchemaMigrationAssumption DEF Init, HeldInv
<1> QED
  BY <1>1, HeldStep, Invariance, PTL DEF Spec

\* The lock of `c` at turn `n` of its loop, nothing having failed; and how that can end.
Holds(c, n) == lock = c /\ setbacks = 0 /\ next[c] = n
HasMovedOn(c, n) == lock # c \/ setbacks > 0 \/ next[c] = n + 1

\* What a step does to who holds the lock: its owner goes on or stays where it is.
LEMMA HolderAdvances ==
  ASSUME NEW c \in Call, NEW n \in Nat, IInv, HeldInv, Holds(c, n), [Next]_vars
  PROVE  \/ HasMovedOn(c, n)'
         \/ /\ Holds(c, n)'
            /\ stage[c] = "validating" => stage'[c] \in {"validating", "checking", "releasing"}
            /\ stage[c] = "checking" => stage'[c] \in {"checking", "applying", "releasing"}
            /\ stage[c] = "applying" => stage'[c] \in {"applying", "releasing"}
            /\ stage[c] = "releasing" => stage'[c] = "releasing"
            /\ c \in Running /\ Answered(c) => stage'[c] # stage[c]
<1> DEFINE Goal ==
      \/ HasMovedOn(c, n)'
      \/ /\ Holds(c, n)'
         /\ stage[c] = "validating" => stage'[c] \in {"validating", "checking", "releasing"}
         /\ stage[c] = "checking" => stage'[c] \in {"checking", "applying", "releasing"}
         /\ stage[c] = "applying" => stage'[c] \in {"applying", "releasing"}
         /\ stage[c] = "releasing" => stage'[c] = "releasing"
         /\ c \in Running /\ Answered(c) => stage'[c] # stage[c]
<1>0. /\ stage \in [Call -> Stage] /\ next \in [Call -> Nat] /\ setbacks \in Nat
      /\ stage[c] \in Migrating \cup {"releasing"}
  BY SchemaMigrationAssumption DEF IInv, TypeOK, HeldInv, Holds
<1>1. ASSUME Setback PROVE Goal
  BY <1>0, <1>1 DEF Setback, HasMovedOn
<1>2. ASSUME Validate(c) \/ Skip(c) \/ IsMissing(c) \/ Apply(c) \/ AllApplied(c) \/ Release(c)
      PROVE  Goal
  BY <1>0, <1>2, SchemaMigrationAssumption
  DEF Validate, Skip, IsMissing, Apply, AllApplied, Release, Conclude, MoveTo, Holds, HasMovedOn
<1>3. ASSUME Prepare(c) \/ LockIsTaken(c) \/ LockIsHeld(c) PROVE Goal
  BY <1>0, <1>3 DEF Prepare, LockIsTaken, LockIsHeld, Migrating
<1>4. ASSUME stage'[c] = stage[c], UNCHANGED <<lock, setbacks>>, next'[c] = next[c],
             ~Answered(c)
      PROVE  Goal
  BY <1>4 DEF Holds
<1>5. ASSUME NEW d \in Call \ {c}, Answered(d)
      PROVE  stage'[c] = stage[c] /\ UNCHANGED <<lock, setbacks>> /\ next'[c] = next[c]
  BY <1>0, <1>5, SchemaMigrationAssumption
  DEF Answered, Prepare, LockIsTaken, LockIsHeld, Validate, Skip, IsMissing, Apply, AllApplied, Release,
      Conclude, MoveTo, Holds
<1>6. Terminated \/ UNCHANGED vars =>
        stage'[c] = stage[c] /\ UNCHANGED <<lock, setbacks>> /\ next'[c] = next[c]
  BY DEF Terminated, vars
<1>7. Answered(c) => Goal
  BY <1>2, <1>3 DEF Answered
<1> HIDE DEF Goal
<1>8. (\E d \in Call \ {c} : Answered(d)) \/ Terminated \/ UNCHANGED vars => Goal
  BY <1>4, <1>5, <1>6, <1>7
<1>9. Goal
  BY <1>1, <1>7, <1>8
  DEF Next, PrepareThrows, LockThrows, SelectThrows, ApplyThrows, ReleaseThrows, Crash
<1> QED
  BY <1>9 DEF Goal

LEMMA TurnEnds ==
  ASSUME NEW c \in Call, NEW n \in Nat
  PROVE  FairSpec => (lock = c /\ next[c] = n ~> HasMovedOn(c, n))
<1> DEFINE Inv == IInv /\ HeldInv
           Mine == Holds(c, n)
           Done == HasMovedOn(c, n)
           At(s) == stage[c] = s
<1>1. FairSpec => Served(c)
  <2>1. Fairness => Served(c)
    BY DEF Fairness
  <2> QED
    BY <2>1, PTL DEF FairSpec
<1>2. Inv /\ lock = c /\ next[c] = n => Mine \/ Done
  BY SchemaMigrationAssumption DEF Holds, HasMovedOn, IInv, TypeOK
<1>3. Inv /\ Mine => At("validating") \/ At("checking") \/ At("applying") \/ At("releasing")
  BY DEF HeldInv, Holds, Migrating
<1>4. Inv /\ Mine /\ [Next]_vars =>
        \/ Done'
        \/ /\ Mine'
           /\ At("validating") => At("validating")' \/ At("checking")' \/ At("releasing")'
           /\ At("checking") => At("checking")' \/ At("applying")' \/ At("releasing")'
           /\ At("applying") => At("applying")' \/ At("releasing")'
           /\ At("releasing") => At("releasing")'
  BY HolderAdvances
<1>5. Inv /\ Mine /\ [Next]_vars /\ <<c \in Running /\ Answered(c)>>_vars =>
        \/ Done'
        \/ /\ At("validating") => ~At("validating")'
           /\ At("checking") => ~At("checking")'
           /\ At("applying") => ~At("applying")'
           /\ At("releasing") => ~At("releasing")'
  BY HolderAdvances
<1>6. c \notin Running => ~(At("validating") \/ At("checking") \/ At("applying") \/ At("releasing"))
  BY DEF Running
<1> QED
  BY <1>1, <1>2, <1>3, <1>4, <1>5, <1>6, LocksAreHeld, PTL DEF FairSpec, Spec, Served

\* While nothing fails, every turn of the loop that works under the lock ends:
\* in the next one, or with the lock given back; and the turn after the last
\* migration with the lock given back, since there is no next one (TypeCorrect).
THEOREM TurnsEnd ==
  FairSpec => \A c \in Call : \A n \in Nat : (lock = c /\ next[c] = n) ~> HasMovedOn(c, n)
BY TurnEnds
==============================================================================
