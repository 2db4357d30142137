--------------------------- MODULE SchemaMigration ---------------------------
(***************************************************************************)
(* migrate() of the SQLite and Postgres stores, called by several          *)
(* processes on one database.  A call takes the one row of                 *)
(* wats_persistence_lock, compares the applied migrations with those its   *)
(* own code knows, applies the ones that are missing, each in a            *)
(* transaction, and gives the row back in a finally.  Migrations are       *)
(* numbered in the order of the source; a process of an older release      *)
(* knows fewer of them.  Checksums that were tampered with are not         *)
(* modelled.                                                               *)
(***************************************************************************)
EXTENDS Naturals, FiniteSets

CONSTANTS
  Call,         \* calls of migrate(); every call makes up a new holder name
  Known,        \* for a call, how many migrations its release has
  Backend,      \* "sqlite" or "postgres"
  NoHolder,     \* the lock table is empty
  MaxSetbacks   \* bound: statements that fail, answers that are lost, crashes

ASSUME SchemaMigrationAssumption ==
  /\ Known \in [Call -> Nat]
  /\ Backend \in {"sqlite", "postgres"}
  /\ NoHolder \notin Call
  /\ MaxSetbacks \in Nat

VARIABLES
  lock,       \* the holder in wats_persistence_lock
  applied,    \* the migrations with a row in wats_schema_migrations
  stage,      \* for a call, the statement it is at
  next,       \* for a call, the migration its loop is at
  report,     \* for a call, the migrations it has applied itself
  outcome,    \* for a call, what it returns or throws
  setbacks    \* how often something failed

vars == <<lock, applied, stage, next, report, outcome, setbacks>>

Stage == {"new", "locking", "validating", "checking", "applying", "releasing", "ended", "dead"}
Outcome == {"none", "ok", "migration_lock_failed", "migration_checksum_mismatch",
            "migration_failed", "outbox_failed", "raw"}

\* A call between taking the lock and giving it back.
Migrating == {"validating", "checking", "applying"}

\* A driver error that no handler maps: #withLock makes an "outbox_failed" of
\* it, the SQLite store lets it through.
Unmapped == IF Backend = "postgres" THEN "outbox_failed" ELSE "raw"

\* What a failing INSERT into the lock table becomes.
LockFault == IF Backend = "postgres" THEN Unmapped ELSE "migration_lock_failed"

MoveTo(c, s) == stage' = [stage EXCEPT ![c] = s]

\* The finally of migrate: return or throw `o` once the lock is given back.
Conclude(c, o) ==
  /\ MoveTo(c, "releasing")
  /\ outcome' = [outcome EXCEPT ![c] = o]

Setback ==
  /\ setbacks < MaxSetbacks
  /\ setbacks' = setbacks + 1
-----------------------------------------------------------------------------
Init ==
  /\ lock = NoHolder
  /\ applied = {}
  /\ stage = [c \in Call |-> "new"]
  /\ next = [c \in Call |-> 1]
  /\ report = [c \in Call |-> {}]
  /\ outcome = [c \in Call |-> "none"]
  /\ setbacks = 0

\* The two CREATE TABLE IF NOT EXISTS come before the try.
Prepare(c) ==
  /\ stage[c] = "new"
  /\ MoveTo(c, "locking")
  /\ UNCHANGED <<lock, applied, next, report, outcome, setbacks>>

PrepareThrows(c) ==
  /\ stage[c] = "new"
  /\ Setback
  /\ MoveTo(c, "ended")
  /\ outcome' = [outcome EXCEPT ![c] = Unmapped]
  /\ UNCHANGED <<lock, applied, next, report>>

\* Slip: INSERT OR REPLACE.
LockIsReplaced(c) ==
  /\ stage[c] = "locking"
  /\ lock' = c
  /\ MoveTo(c, "validating")
  /\ UNCHANGED <<applied, next, report, outcome, setbacks>>

LockIsTaken(c) ==
  /\ stage[c] = "locking" /\ lock = NoHolder
  /\ lock' = c
  /\ MoveTo(c, "validating")
  /\ UNCHANGED <<applied, next, report, outcome, setbacks>>

LockIsHeld(c) ==
  /\ stage[c] = "locking" /\ lock # NoHolder
  /\ Conclude(c, "migration_lock_failed")
  /\ UNCHANGED <<lock, applied, next, report, setbacks>>

\* The answer may be lost after the row was inserted.
LockThrows(c) ==
  /\ stage[c] = "locking"
  /\ Setback
  /\ lock' \in {lock, IF lock = NoHolder THEN c ELSE lock}
  /\ Conclude(c, LockFault)
  /\ UNCHANGED <<applied, next, report>>

\* Slip: a mismatch is thrown before the try.
ValidateKeepsLock(c) ==
  /\ stage[c] = "validating"
  /\ IF applied \subseteq 1..Known[c]
       THEN MoveTo(c, "checking") /\ UNCHANGED outcome
       ELSE MoveTo(c, "ended") /\ outcome' = [outcome EXCEPT ![c] = "migration_checksum_mismatch"]
  /\ UNCHANGED <<lock, applied, next, report, setbacks>>

\* #validateAppliedChecksums: a migration this release does not know is a mismatch.
Validate(c) ==
  /\ stage[c] = "validating"
  /\ IF applied \subseteq 1..Known[c]
       THEN MoveTo(c, "checking") /\ UNCHANGED outcome
       ELSE Conclude(c, "migration_checksum_mismatch")
  /\ UNCHANGED <<lock, applied, next, report, setbacks>>

Skip(c) ==
  /\ stage[c] = "checking" /\ next[c] <= Known[c] /\ next[c] \in applied
  /\ next' = [next EXCEPT ![c] = @ + 1]
  /\ UNCHANGED <<lock, applied, stage, report, outcome, setbacks>>

IsMissing(c) ==
  /\ stage[c] = "checking" /\ next[c] <= Known[c] /\ next[c] \notin applied
  /\ MoveTo(c, "applying")
  /\ UNCHANGED <<lock, applied, next, report, outcome, setbacks>>

\* The transaction of one migration: its statements and its row, whose primary
\* key refuses a migration that is there by now.
Apply(c) ==
  /\ stage[c] = "applying"
  /\ IF next[c] \in applied
       THEN Conclude(c, "migration_failed") /\ UNCHANGED <<applied, next, report>>
       ELSE /\ applied' = applied \cup {next[c]}
            /\ report' = [report EXCEPT ![c] = @ \cup {next[c]}]
            /\ next' = [next EXCEPT ![c] = @ + 1]
            /\ MoveTo(c, "checking")
            /\ UNCHANGED outcome
  /\ UNCHANGED <<lock, setbacks>>

\* Slip: a migration that fails is logged and left for later.
ApplyThrowsAndGoesOn(c) ==
  /\ stage[c] = "applying"
  /\ Setback
  /\ next' = [next EXCEPT ![c] = @ + 1]
  /\ MoveTo(c, "checking")
  /\ UNCHANGED <<lock, applied, report, outcome>>

\* The transaction is rolled back, unless only the answer to COMMIT was lost.
\* BEGIN and ROLLBACK are outside of the inner try.
ApplyThrows(c) ==
  /\ stage[c] = "applying"
  /\ Setback
  /\ applied' \in {applied, applied \cup {next[c]}}
  /\ \E o \in {"migration_failed", Unmapped} : Conclude(c, o)
  /\ UNCHANGED <<lock, next, report>>

\* The two SELECTs can fail, too.
SelectThrows(c) ==
  /\ \/ stage[c] = "validating"
     \/ stage[c] = "checking" /\ next[c] <= Known[c]
  /\ Setback
  /\ Conclude(c, Unmapped)
  /\ UNCHANGED <<lock, applied, next, report>>

AllApplied(c) ==
  /\ stage[c] = "checking" /\ next[c] > Known[c]
  /\ Conclude(c, "ok")
  /\ UNCHANGED <<lock, applied, next, report, setbacks>>

\* #releaseLock deletes the row if it carries the holder of this call.
Release(c) ==
  /\ stage[c] = "releasing"
  /\ lock' = IF lock = c THEN NoHolder ELSE lock
  /\ MoveTo(c, "ended")
  /\ UNCHANGED <<applied, next, report, outcome, setbacks>>

\* Best effort: an error is swallowed and changes no outcome.
ReleaseThrows(c) ==
  /\ stage[c] = "releasing"
  /\ Setback
  /\ lock' \in {lock, IF lock = c THEN NoHolder ELSE lock}
  /\ MoveTo(c, "ended")
  /\ UNCHANGED <<applied, next, report, outcome>>

Running == {c \in Call : stage[c] \notin {"new", "ended", "dead"}}

\* A process dies; its transaction, if any, is rolled back.
Crash(c) ==
  /\ c \in Running
  /\ Setback
  /\ MoveTo(c, "dead")
  /\ UNCHANGED <<lock, applied, next, report, outcome>>

Terminated == Running = {} /\ (\A c \in Call : stage[c] # "new") /\ UNCHANGED vars

Answered(c) ==
  \/ Prepare(c) \/ LockIsTaken(c) \/ LockIsHeld(c) \/ Validate(c) \/ Skip(c) \/ IsMissing(c)
  \/ Apply(c) \/ AllApplied(c) \/ Release(c)

Next ==
  \/ \E c \in Call :
       \/ Answered(c)
       \/ PrepareThrows(c) \/ LockThrows(c) \/ SelectThrows(c) \/ ApplyThrows(c) \/ ReleaseThrows(c)
       \/ Crash(c)
  \/ Terminated

Spec == Init /\ [][Next]_vars

\* Weak fairness of the answers to `c`, which can come when it runs and only then.
Served(c) == []<>(c \notin Running) \/ []<><<c \in Running /\ Answered(c)>>_vars

\* A statement is answered; processes need not start.
Fairness == \A c \in Call : Served(c)

FairSpec == Spec /\ Fairness
-----------------------------------------------------------------------------
\* Types, and how far the loop of a call can have come.
TypeOK ==
  /\ lock \in Call \cup {NoHolder}
  /\ applied \subseteq Nat
  /\ stage \in [Call -> Stage]
  /\ next \in [Call -> Nat] /\ \A c \in Call : next[c] \in 1..(Known[c] + 1)
  /\ report \in [Call -> SUBSET Nat]
  /\ outcome \in [Call -> Outcome]
  /\ setbacks \in 0..MaxSetbacks

\* Only the holder of the lock is between taking it and giving it back, also
\* after locks that were left behind and calls that were refused.
OneMigratorAtATime ==
  \A c \in Call : stage[c] \in Migrating => lock = c

\* A release never works on a schema newer than the newest it knows: what it
\* has compared once still holds when it applies its last migration.
NeverOnANewerSchema ==
  \A c \in Call : stage[c] \in {"checking", "applying"} => applied \subseteq 1..Known[c]

\* Migrations are applied in their order, without gaps, whatever failed before.
AppliedInOrder ==
  \A m \in applied : 1..m \subseteq applied

\* A call that returns found or made everything its release needs.
OkMeansCurrent ==
  \A c \in Call : outcome[c] = "ok" => 1..Known[c] \subseteq applied

\* No release, old or new, comes up on a schema with a gap below what it needs.
SchemaIsComplete == AppliedInOrder /\ OkMeansCurrent

\* What was applied is reported by one call at most, so that a report of
\* alreadyCurrent or of applied migrations can be believed.
ReportedOnce ==
  \A c, d \in Call : c # d => report[c] \cap report[d] = {}

\* Migrators exclude each other: in time, by release and in what they report.
MigratorsExclude == OneMigratorAtATime /\ NeverOnANewerSchema /\ ReportedOnce

\* A lock disappears only when its own call is through: a call that was
\* refused, or whose insert failed, does not free the lock of another.
OwnLockOnly ==
  [][\A c \in Call : lock = c /\ lock' # c => stage[c] = "releasing" /\ stage'[c] = "ended"]_vars

\* A lock is given back on every path out of migrate, unless a statement or the
\* process failed.
LockIsGivenBack ==
  \A c \in Call : lock = c ~> lock # c \/ setbacks > 0
==============================================================================
