------------------------- MODULE UpdateDispatch_proofs -------------------------
(***************************************************************************)
(* Proofs about the dispatch of updates, for any envelopes, listeners,     *)
(* handlers, signals and limits.                                           *)
(***************************************************************************)
EXTENDS UpdateDispatch, FiniteSetTheorems, WellFoundedInduction, TLAPS

LEMMA FirstIsLeast ==
  ASSUME NEW S, S \subseteq Nat, S # {}
  PROVE  First(S) \in S /\ \A m \in S : First(S) <= m
<1> DEFINE R == OpToRel(<, Nat)
<1>1. IsWellFoundedOn(R, Nat)
  BY NatLessThanWellFounded
<1>2. \A x, y \in Nat : y < x => <<y, x>> \in R
  BY DEF OpToRel
<1> HIDE DEF R
<1>3. \E x \in S : \A y \in S : ~ (<<y, x>> \in R)
  BY <1>1, WFMin
<1>4. PICK x \in S : \A y \in S : ~ (<<y, x>> \in R)
  BY <1>3
<1>5. \A y \in S : x <= y
  <2> TAKE y \in S
  <2>1. ~ (y < x)
    BY <1>2, <1>4
  <2>2. x \in Nat /\ y \in Nat
    OBVIOUS
  <2> QED
    BY <2>1, <2>2
<1> QED
  BY <1>5 DEF First

-----------------------------------------------------------------------------
(* The registry of listeners *)

\* The registry is sound, and listeners to come have no fate yet.
RegistryInv ==
  /\ RegistryTypeOK
  /\ NothingLeaks
  /\ \A l \in Listener : l > listeners => fate[l] = "none"

\* The bodies of SettledForGood and OneUpdateOneWaiter.
Stay ==
  \A l \in Listener : fate[l] \notin {"none", "pending"} =>
    fate'[l] = fate[l] /\ l \notin entries' \cup timers' /\ hooks'[l] = None

Resolve ==
  \A l \in Listener : fate[l] # "resolved" /\ fate'[l] = "resolved" =>
    /\ fate[l] = "pending" /\ \A k \in Listener \ {l} : fate'[k] = fate[k]
    /\ \E d \in Dispatches :
         /\ job[d].phase = "listening" /\ job[d].at = l
         /\ job'[d].phase # "listening"

NoneResolves == \A l \in Listener : fate'[l] = "resolved" => fate[l] = "resolved"

LEMMA EntriesAreFinite ==
  ASSUME RegistryInv
  PROVE  /\ IsFiniteSet(entries) /\ Cardinality(entries) \in Nat
         /\ \A T \in SUBSET entries : Cardinality(T) <= Cardinality(entries)
<1>1. listeners \in Nat /\ entries \subseteq 1..listeners
  BY ListenerRegistryAssumption DEF RegistryInv, RegistryTypeOK
<1>2. IsFiniteSet(1..listeners)
  BY <1>1, FS_Interval
<1>3. IsFiniteSet(entries)
  BY <1>1, <1>2, FS_Subset
<1> QED
  BY <1>3, FS_Subset, FS_CardinalityType

LEMMA FinalizeKeeps ==
  ASSUME RegistryInv, NEW gone \in SUBSET entries, NEW why \in {"resolved", "rejected"},
         Finalize(gone, why), aborted' \in SUBSET Signals,
         \A l \in Listener \ gone : hooks[l] # None => hooks[l] \notin aborted'
  PROVE  RegistryInv' /\ Stay
<1>1. /\ entries' = entries \ gone /\ timers' = timers \ gone /\ listeners' = listeners
      /\ fate' = [l \in Listener |-> IF l \in gone THEN why ELSE fate[l]]
      /\ hooks' = [l \in Listener |-> IF l \in gone THEN None ELSE hooks[l]]
  BY DEF Finalize
<1>2. RegistryTypeOK'
  BY <1>1 DEF RegistryInv, RegistryTypeOK, Fate
<1>3. Cardinality(entries') <= MaxActive
  <2>1. Cardinality(entries') <= Cardinality(entries) /\ Cardinality(entries) \in Nat
    BY <1>1, EntriesAreFinite
  <2>2. entries' \in SUBSET entries /\ IsFiniteSet(entries)
    BY <1>1, EntriesAreFinite
  <2>3. Cardinality(entries') \in Nat
    BY <2>2, FS_Subset, FS_CardinalityType
  <2> QED
    BY <2>1, <2>3, ListenerRegistryAssumption DEF RegistryInv, NothingLeaks
<1>4. NothingLeaks'
  <2>1. entries' = {l \in Listener : fate'[l] = "pending"}
    BY <1>1 DEF RegistryInv, NothingLeaks
  <2>2. timers' \subseteq entries'
    BY <1>1 DEF RegistryInv, NothingLeaks
  <2>3. \A l \in Listener : hooks'[l] # None => l \in entries' /\ hooks'[l] \notin aborted'
    BY <1>1 DEF RegistryInv, NothingLeaks
  <2> QED
    BY <1>3, <2>1, <2>2, <2>3 DEF NothingLeaks
<1>5. \A l \in Listener : l > listeners' => fate'[l] = "none"
  BY <1>1 DEF RegistryInv, NothingLeaks
<1>6. Stay
  BY <1>1 DEF RegistryInv, NothingLeaks, Stay
<1> QED
  BY <1>2, <1>4, <1>5, <1>6 DEF RegistryInv

LEMMA RegisterKeeps ==
  ASSUME RegistryInv, NEW o \in Options, Register(o[1], o[2])
  PROVE  RegistryInv' /\ Stay /\ NoneResolves
<1> DEFINE l == listeners + 1
           enters == o[2] \notin aborted
<1>1. /\ listeners \in 0..MaxListeners /\ listeners < MaxListeners /\ l \in Listener
      /\ o[1] \in BOOLEAN /\ o[2] \in Signals \cup {None}
  BY ListenerRegistryAssumption DEF RegistryInv, RegistryTypeOK, Register, Listener
<1>2. /\ listeners' = l /\ aborted' = aborted
      /\ entries' = IF enters THEN entries \cup {l} ELSE entries
      /\ fate' = [fate EXCEPT ![l] = IF enters THEN "pending" ELSE "rejected"]
      /\ timers' = IF enters /\ o[1] THEN timers \cup {l} ELSE timers
      /\ hooks' = [hooks EXCEPT ![l] = IF enters THEN o[2] ELSE None]
      /\ Cardinality(entries) < MaxActive
  BY DEF Register
<1>3. l \notin entries /\ l \notin timers /\ fate[l] = "none" /\ hooks[l] = None
  BY <1>1 DEF RegistryInv, RegistryTypeOK, NothingLeaks
<1>4. /\ entries \subseteq 1..listeners /\ fate \in [Listener -> Fate]
      /\ timers \subseteq Listener /\ hooks \in [Listener -> Signals \cup {None}]
      /\ aborted \subseteq Signals
  BY DEF RegistryInv, RegistryTypeOK
<1>5. RegistryTypeOK'
  <2>1. entries' \subseteq 1..listeners' /\ listeners' \in 0..MaxListeners
    BY <1>1, <1>2, <1>4, ListenerRegistryAssumption
  <2>2. fate' \in [Listener -> Fate] /\ timers' \subseteq Listener
        /\ hooks' \in [Listener -> Signals \cup {None}] /\ aborted' \subseteq Signals
    BY <1>1, <1>2, <1>4 DEF Fate
  <2> QED
    BY <2>1, <2>2 DEF RegistryTypeOK
<1>6. Cardinality(entries') <= MaxActive
  <2>1. Cardinality(entries \cup {l}) = Cardinality(entries) + 1
    BY <1>3, EntriesAreFinite, FS_AddElement
  <2> QED
    BY <1>2, <2>1, EntriesAreFinite, ListenerRegistryAssumption
<1>7. NothingLeaks'
  <2>1. entries' = {k \in Listener : fate'[k] = "pending"}
    BY <1>1, <1>2, <1>3, <1>4 DEF RegistryInv, NothingLeaks
  <2>2. timers' \subseteq entries'
    BY <1>2 DEF RegistryInv, NothingLeaks
  <2>3. \A k \in Listener : hooks'[k] # None => k \in entries' /\ hooks'[k] \notin aborted'
    BY <1>1, <1>2, <1>4 DEF RegistryInv, NothingLeaks
  <2> QED
    BY <1>6, <2>1, <2>2, <2>3 DEF NothingLeaks
<1>8. \A k \in Listener : k > listeners' => fate'[k] = "none"
  BY <1>1, <1>2, <1>4 DEF RegistryInv, Listener
<1>9. Stay /\ NoneResolves
  BY <1>1, <1>2, <1>3, <1>4 DEF RegistryInv, NothingLeaks, Stay, NoneResolves
<1> QED
  BY <1>5, <1>7, <1>8, <1>9 DEF RegistryInv

LEMMA RejectKeeps ==
  ASSUME RegistryInv,
         \/ RegistryCall
         \/ \E l \in Listener : TimeOut(l)
  PROVE  RegistryInv' /\ Stay /\ NoneResolves
<1>1. ASSUME NEW gone \in SUBSET entries, Finalize(gone, "rejected") PROVE NoneResolves
  BY <1>1 DEF Finalize, NoneResolves
<1>2. \A l \in Listener : hooks[l] # None => hooks[l] \notin aborted
  BY DEF RegistryInv, NothingLeaks
<1>3. aborted \in SUBSET Signals
  BY DEF RegistryInv, RegistryTypeOK
<1>4. ASSUME NEW l \in Listener, TimeOut(l) \/ Cancel(l) PROVE RegistryInv' /\ Stay /\ NoneResolves
  <2>1. {l} \in SUBSET entries /\ Finalize({l}, "rejected") /\ aborted' = aborted
    BY <1>4 DEF TimeOut, Cancel, RegistryInv, NothingLeaks
  <2> QED
    BY <1>1, <1>2, <1>3, <2>1, FinalizeKeeps
<1>5. CASE ClearListeners
  BY <1>1, <1>2, <1>3, <1>5, FinalizeKeeps DEF ClearListeners
<1>6. ASSUME NEW signal \in Signals, Abort(signal) PROVE RegistryInv' /\ Stay /\ NoneResolves
  <2> DEFINE gone == {l \in Listener : hooks[l] = signal}
  <2>1. gone \in SUBSET entries
    BY ListenerRegistryAssumption DEF RegistryInv, NothingLeaks
  <2>2. Finalize(gone, "rejected") /\ aborted' \in SUBSET Signals
    BY <1>3, <1>6 DEF Abort
  <2>3. \A l \in Listener \ gone : hooks[l] # None => hooks[l] \notin aborted'
    BY <1>2, <1>6 DEF Abort
  <2> HIDE DEF gone
  <2> QED
    BY <1>1, <2>1, <2>2, <2>3, FinalizeKeeps
<1> QED
  BY <1>4, <1>5, <1>6, RegisterKeeps DEF RegistryCall

LEMMA RegistryStays ==
  ASSUME RegistryInv, UNCHANGED registryVars
  PROVE  RegistryInv' /\ Stay /\ NoneResolves
BY DEF registryVars, RegistryInv, RegistryTypeOK, NothingLeaks, Stay, NoneResolves

-----------------------------------------------------------------------------
(* The job of a dispatch *)

Job == [phase : Phase, at : Nat, snapshot : SUBSET Handler,
        matching : SUBSET Handler, errors : SUBSET Handler, stopped : BOOLEAN, capped : BOOLEAN,
        ran : [Handler -> Ending \cup {"none"}]]

\* No handler has been asked or invoked.
Clean(j) ==
  /\ j.matching = {} /\ j.errors = {} /\ ~ j.stopped /\ ~ j.capped
  /\ \A h \in Handler : j.ran[h] = "none"

\* The handlers up to n have been asked.
ScanInv(j, n) ==
  /\ ~ j.stopped /\ ~ j.capped
  /\ \A h \in Handler : j.ran[h] = "none"
  /\ \A h \in j.matching \cup j.errors : h <= n
  /\ j.matching \cap j.errors = {}
  /\ Cardinality(j.matching) <= cap

\* The matching handlers are invoked.
RunInv(j) ==
  /\ \A h \in Handler : j.ran[h] # "none" => h \in j.matching
  /\ \A h \in Handler : h \in j.errors \cap j.matching <=> j.ran[h] = "throw"
  /\ j.stopped <=> \E h \in Handler : j.ran[h] = "stop"
  /\ Cardinality(j.matching) <= cap
  /\ j.capped => Cardinality(j.matching) = cap
  /\ concurrency = "sequential" =>
       \A h \in Handler : \A k \in j.matching :
         j.ran[h] # "none" /\ k < h => j.ran[k] \in {"ok", "throw"}
  /\ concurrency = "parallel" =>
       \/ \A h \in j.matching : j.ran[h] = "none"
       \/ \A h \in j.matching : j.ran[h] # "none"

JobInv(j) ==
  /\ j.phase \in {"idle", "listening", "reported"} => Clean(j)
  /\ j.phase = "scanning" => j.at \in Handler /\ ScanInv(j, j.at - 1)
  /\ j.phase = "running" => RunInv(j)

RouterInv ==
  /\ concurrency \in {"sequential", "parallel"}
  /\ cap \in Nat \ {0} /\ cap \in Caps
  /\ handlers \in 0..MaxHandlers
  /\ live \subseteq 1..handlers
  /\ job \in [Dispatches -> Job]
  /\ \A d \in Dispatches : JobInv(job[d])

\* The body of SnapshotHolds for a dispatch, in a step that leaves the handlers alone.
Snap(was, is) ==
  /\ is.phase = "scanning" /\ is # was => is.at \in live \cap is.snapshot
  /\ is.phase = "scanning" /\ was.phase # "scanning" => is.snapshot = live
  /\ is.matching \subseteq was.matching \cup (IF was.phase = "scanning" THEN {was.at} ELSE {})
  /\ was.phase = "scanning" => is.snapshot \in {{}, was.snapshot}

LEMMA HandlerSets ==
  ASSUME NEW S \in SUBSET Handler
  PROVE  S \subseteq Nat /\ IsFiniteSet(S) /\ Cardinality(S) \in Nat
<1>1. MaxHandlers \in Nat
  BY TypedRouterAssumption
<1>2. IsFiniteSet(1..MaxHandlers)
  BY <1>1, FS_Interval
<1>3. IsFiniteSet(S)
  BY <1>2, FS_Subset DEF Handler
<1> QED
  BY <1>1, <1>3, FS_CardinalityType DEF Handler

LEMMA LiveHandlers == RouterInv => live \subseteq Handler
BY TypedRouterAssumption DEF RouterInv, Handler

\* The scan goes on after handler n.
LEMMA AskKeeps ==
  ASSUME RouterInv, NEW j \in Job, NEW n \in Nat, ScanInv(j, n)
  PROVE  LET k == AskHandlers(j, n) IN
         /\ k \in Job /\ JobInv(k)
         /\ k.phase \in {"scanning", "running"}
         /\ k.matching = j.matching
         /\ k.snapshot \in {{}, j.snapshot}
         /\ k.phase = "scanning" => k.snapshot = j.snapshot /\ k.at \in live \cap k.snapshot /\ k.at > n
<1> DEFINE rest == {h \in j.snapshot \cap live : h > n}
           k == AskHandlers(j, n)
<1>1. j.snapshot \subseteq Handler /\ j.matching \subseteq Handler /\ j.errors \subseteq Handler
  BY DEF Job
<1>2. CASE rest = {}
  <2>1. k = [j EXCEPT !.phase = "running", !.at = 0, !.snapshot = {}]
    BY <1>2 DEF AskHandlers
  <2>2. k \in Job
    <3> HIDE DEF k
    <3>1. {} \in SUBSET Handler /\ 0 \in Nat /\ "running" \in Phase
      BY DEF Phase
    <3> QED
      BY <2>1, <3>1 DEF Job
  <2>3. /\ k.phase = "running" /\ k.snapshot = {} /\ k.matching = j.matching /\ k.errors = j.errors
        /\ k.ran = j.ran /\ k.stopped = j.stopped /\ k.capped = j.capped
    BY <2>1 DEF Job
  <2>4. RunInv(k)
    BY <2>3, <1>1 DEF RunInv, ScanInv
  <2> QED
    BY <2>2, <2>3, <2>4 DEF JobInv
<1>3. CASE rest # {}
  <2>1. rest \subseteq Nat
    BY <1>1, HandlerSets
  <2>2. First(rest) \in rest
    BY <1>3, <2>1, FirstIsLeast
  <2>3. k = [j EXCEPT !.phase = "scanning", !.at = First(rest)]
    BY <1>3 DEF AskHandlers
  <2> DEFINE f == First(rest)
  <2> HIDE DEF f
  <2>4. f \in Nat /\ f > n /\ f \in j.snapshot \cap live /\ f \in Handler
    BY <1>1, <2>1, <2>2 DEF f
  <2>5. /\ k.phase = "scanning" /\ k.at = f /\ k.snapshot = j.snapshot /\ k.matching = j.matching
        /\ k.errors = j.errors /\ k.ran = j.ran /\ k.stopped = j.stopped /\ k.capped = j.capped
    BY <2>3 DEF Job, f
  <2>6. k \in Job
    BY <2>3, <2>4 DEF Job, Phase, f
  <2>7. ScanInv(k, f - 1)
    <3>1. \A h \in j.matching \cup j.errors : h \in Nat
      BY <1>1, HandlerSets
    <3> QED
      BY <2>4, <2>5, <3>1 DEF ScanInv
  <2> QED
    BY <2>4, <2>5, <2>6, <2>7 DEF JobInv
<1> QED
  BY <1>2, <1>3

LEMMA SnapshotKeeps ==
  ASSUME RouterInv, NEW j \in Job, Clean(j)
  PROVE  LET k == TakeSnapshot(j) IN
         /\ k \in Job /\ JobInv(k)
         /\ k.phase \in {"scanning", "running"}
         /\ k.matching = {}
         /\ k.phase = "scanning" => k.snapshot = live /\ k.at \in live
<1> DEFINE i == [j EXCEPT !.snapshot = live]
<1>1. i \in Job
  BY LiveHandlers DEF Job
<1>2. /\ i.snapshot = live /\ i.matching = {} /\ i.errors = {} /\ i.ran = j.ran
      /\ i.stopped = j.stopped /\ i.capped = j.capped
  BY DEF Job, Clean
<1>3. ScanInv(i, 0)
  BY <1>2, FS_EmptySet DEF Clean, ScanInv, RouterInv
<1>4. TakeSnapshot(j) = AskHandlers(i, 0)
  BY DEF TakeSnapshot
<1> HIDE DEF i
<1> QED
  BY <1>1, <1>2, <1>3, <1>4, AskKeeps

LEMMA ListenersKeep ==
  ASSUME RegistryInv, RouterInv, NEW j \in Job, NEW n \in Nat, Clean(j)
  PROVE  LET k == AskListeners(j, n) IN
         /\ k \in Job /\ JobInv(k)
         /\ k.phase \in {"listening", "scanning", "running"}
         /\ k.matching = {}
         /\ k.phase = "scanning" => k.snapshot = live /\ k.at \in live
<1> DEFINE rest == {l \in entries : l > n}
           k == AskListeners(j, n)
<1>1. CASE rest = {}
  BY <1>1, SnapshotKeeps DEF AskListeners
<1>2. CASE rest # {}
  <2>1. rest \subseteq Nat
    <3>1. listeners \in Nat /\ entries \subseteq 1..listeners
      BY ListenerRegistryAssumption DEF RegistryInv, RegistryTypeOK
    <3>2. \A l \in entries : l \in Nat
      BY <3>1
    <3> QED
      BY <3>2
  <2>2. First(rest) \in Nat
    BY <1>2, <2>1, FirstIsLeast
  <2>3. k = [j EXCEPT !.phase = "listening", !.at = First(rest)]
    BY <1>2 DEF AskListeners
  <2> DEFINE f == First(rest)
  <2> HIDE DEF f
  <2>4. k \in Job
    BY <2>2, <2>3 DEF Job, Phase, f
  <2>5. /\ k.phase = "listening" /\ k.matching = j.matching /\ k.errors = j.errors /\ k.ran = j.ran
        /\ k.stopped = j.stopped /\ k.capped = j.capped
    BY <2>3 DEF Job, f
  <2> QED
    BY <2>4, <2>5 DEF JobInv, Clean
<1> QED
  BY <1>1, <1>2

-----------------------------------------------------------------------------
(* The steps of a dispatch *)

\* The body of ReportsAreTrue.
Told(d) ==
  job[d].phase = "running" /\ job'[d].phase = "reported" =>
    LET ended(how) == {h \in Handler : job[d].ran[h] = how} IN
    /\ job[d].errors \cap job[d].matching = ended("throw")
    /\ job[d].stopped = (ended("stop") # {})
    /\ RunningNow(d) = {}
    /\ NotRun(d) = {} \/ (concurrency = "sequential" /\ job[d].stopped)
    /\ job[d].capped => Cardinality(job[d].matching) = cap

\* What every step of a dispatch comes to.
Moves(d) ==
  /\ UNCHANGED <<concurrency, cap, handlers, live>>
  /\ job' = [job EXCEPT ![d] = job'[d]]
  /\ job'[d] \in Job /\ JobInv(job'[d])
  /\ job'[d].phase # "idle"
  /\ Snap(job[d], job'[d])
  /\ Told(d)

LEMMA AcceptMoves ==
  ASSUME RegistryInv, RouterInv, NEW d \in Dispatches, ListenerAccepts(d)
  PROVE  Moves(d) /\ RegistryInv' /\ Stay /\ Resolve
<1> DEFINE j == job[d]
           k == TakeSnapshot(j)
           gone == {j.at} \cap entries
<1>1. /\ j \in Job /\ j.phase = "listening" /\ Clean(j)
      /\ Finalize(gone, "resolved") /\ aborted' = aborted
      /\ job' = [job EXCEPT ![d] = k] /\ UNCHANGED <<concurrency, cap, handlers, live>>
  BY DEF ListenerAccepts, RouterInv, JobInv
<1>2. job'[d] = k
  BY <1>1 DEF RouterInv
<1>3. /\ k \in Job /\ JobInv(k) /\ k.phase \in {"scanning", "running"} /\ k.matching = {}
      /\ k.phase = "scanning" => k.snapshot = live /\ k.at \in live
  BY <1>1, SnapshotKeeps
<1> HIDE DEF k
<1>4. Moves(d)
  <2>1. job' = [job EXCEPT ![d] = job'[d]] /\ Told(d)
    BY <1>1, <1>2 DEF Told
  <2>2. Snap(j, k)
    BY <1>1, <1>3 DEF Snap
  <2> QED
    BY <1>1, <1>2, <1>3, <2>1, <2>2 DEF Moves
<1>5. RegistryInv' /\ Stay
  <2>1. aborted' \in SUBSET Signals /\ \A l \in Listener \ gone : hooks[l] # None => hooks[l] \notin aborted'
    BY <1>1 DEF RegistryInv, RegistryTypeOK, NothingLeaks
  <2> HIDE DEF gone
  <2>2. gone \in SUBSET entries
    BY DEF gone
  <2> QED
    BY <1>1, <2>1, <2>2, FinalizeKeeps
<1>6. Resolve
  <2> SUFFICES ASSUME NEW l \in Listener, fate[l] # "resolved", fate'[l] = "resolved"
               PROVE  /\ fate[l] = "pending" /\ \A m \in Listener \ {l} : fate'[m] = fate[m]
                      /\ job[d].at = l
    BY <1>1, <1>2, <1>3 DEF Resolve
  <2>1. fate' = [m \in Listener |-> IF m \in gone THEN "resolved" ELSE fate[m]]
    BY <1>1 DEF Finalize
  <2>2. l \in gone
    BY <2>1
  <2> QED
    BY <2>1, <2>2 DEF RegistryInv, NothingLeaks
<1> QED
  BY <1>4, <1>5, <1>6

LEMMA DeclineMoves ==
  ASSUME RegistryInv, RouterInv, NEW d \in Dispatches, ListenerDeclines(d)
  PROVE  Moves(d)
<1> DEFINE j == job[d]
<1>1. /\ j \in Job /\ j.phase = "listening" /\ Clean(j) /\ j.at \in Nat
      /\ UNCHANGED <<concurrency, cap, handlers, live>>
  BY DEF ListenerDeclines, RouterInv, JobInv, Job
<1>2. ASSUME NEW k \in Job, job' = [job EXCEPT ![d] = k],
             JobInv(k), k.phase \in {"listening", "scanning", "running"}, k.matching = {},
             k.phase = "scanning" => k.snapshot = live /\ k.at \in live
      PROVE  Moves(d)
  <2>1. job'[d] = k
    BY <1>2 DEF RouterInv
  <2>2. job' = [job EXCEPT ![d] = job'[d]] /\ Told(d)
    BY <1>1, <1>2, <2>1 DEF Told
  <2>3. Snap(j, k)
    BY <1>1, <1>2 DEF Snap
  <2> QED
    BY <1>1, <1>2, <2>1, <2>2, <2>3 DEF Moves
<1>3. CASE job' = [job EXCEPT ![d] = AskListeners(@, job[d].at)]
  BY <1>1, <1>2, <1>3, ListenersKeep
<1>4. CASE job' = [job EXCEPT ![d] = TakeSnapshot(@)]
  BY <1>1, <1>2, <1>4, SnapshotKeeps
<1> QED
  BY <1>3, <1>4 DEF ListenerDeclines

\* The scan has asked handler j.at and found it in `matched` or `failed`.
LEMMA ScanGoesOn ==
  ASSUME RouterInv, NEW d \in Dispatches, job[d].phase = "scanning",
         NEW i \in Job, ScanInv(i, job[d].at), i.snapshot = job[d].snapshot,
         i.matching \subseteq job[d].matching \cup {job[d].at},
         job' = [job EXCEPT ![d] = AskHandlers(i, job[d].at)],
         UNCHANGED <<concurrency, cap, handlers, live>>
  PROVE  Moves(d)
<1> DEFINE k == AskHandlers(i, job[d].at)
<1>1. job[d].at \in Nat
  BY DEF RouterInv, Job
<1>2. job'[d] = k
  BY DEF RouterInv
<1>3. /\ k \in Job /\ JobInv(k) /\ k.phase \in {"scanning", "running"} /\ k.matching = i.matching
      /\ k.snapshot \in {{}, i.snapshot}
      /\ k.phase = "scanning" => k.snapshot = i.snapshot /\ k.at \in live \cap k.snapshot
  BY <1>1, AskKeeps
<1> HIDE DEF k
<1> QED
  BY <1>2, <1>3 DEF Moves, Snap, Told, k

LEMMA PredicateMoves ==
  ASSUME RouterInv, NEW d \in Dispatches, HandlerPredicate(d)
  PROVE  Moves(d)
<1> DEFINE j == job[d]
<1>1. /\ j \in Job /\ j.phase = "scanning" /\ j.at \in Handler /\ ScanInv(j, j.at - 1)
      /\ UNCHANGED <<concurrency, cap, handlers, live>>
  BY DEF HandlerPredicate, RouterInv, JobInv
<1>2. /\ j.at \in Nat /\ j.matching \subseteq Nat /\ j.errors \subseteq Nat
      /\ IsFiniteSet(j.matching) /\ Cardinality(j.matching) \in Nat /\ cap \in Nat
      /\ j.matching \subseteq Handler /\ j.errors \subseteq Handler
  <2>1. j.matching \in SUBSET Handler /\ j.errors \in SUBSET Handler /\ {j.at} \in SUBSET Handler
    BY <1>1 DEF Job
  <2> QED
    BY <2>1, HandlerSets DEF RouterInv
<1>3. j.at \notin j.matching /\ j.at \notin j.errors
  BY <1>1, <1>2 DEF ScanInv
<1>4. CASE job' = [job EXCEPT ![d] = Match(@)] /\ Cardinality(j.matching) >= cap
  <2> DEFINE k == [j EXCEPT !.phase = "running", !.at = 0, !.snapshot = {}, !.capped = TRUE]
  <2>1. job'[d] = k /\ job' = [job EXCEPT ![d] = k]
    BY <1>4 DEF Match, RouterInv
  <2>2. k \in Job
    <3>1. {} \in SUBSET Handler /\ 0 \in Nat /\ "running" \in Phase /\ TRUE \in BOOLEAN
      BY DEF Phase
    <3> QED
      BY <1>1, <3>1 DEF Job
  <2>3. /\ k.phase = "running" /\ k.snapshot = {} /\ k.matching = j.matching /\ k.errors = j.errors
        /\ k.ran = j.ran /\ k.stopped = j.stopped
    BY <1>1 DEF Job
  <2>4. Cardinality(j.matching) = cap
    BY <1>1, <1>2, <1>4 DEF ScanInv
  <2>5. RunInv(k)
    BY <1>1, <1>2, <2>3, <2>4 DEF RunInv, ScanInv
  <2> HIDE DEF k
  <2> QED
    BY <1>1, <2>1, <2>2, <2>3, <2>5 DEF Moves, Snap, Told, JobInv
<1>5. CASE job' = [job EXCEPT ![d] = Match(@)] /\ ~ (Cardinality(j.matching) >= cap)
  <2> DEFINE i == [j EXCEPT !.matching = @ \cup {j.at}]
  <2>1. job' = [job EXCEPT ![d] = AskHandlers(i, j.at)]
    <3>1. Match(j) = AskHandlers(i, j.at)
      BY <1>5 DEF Match
    <3> QED
      BY <1>5, <3>1
  <2>2. i \in Job
    BY <1>1 DEF Job
  <2>3. /\ i.matching = j.matching \cup {j.at} /\ i.errors = j.errors /\ i.ran = j.ran
        /\ i.snapshot = j.snapshot /\ i.stopped = j.stopped /\ i.capped = j.capped
    BY <1>1 DEF Job
  <2>4. Cardinality(j.matching \cup {j.at}) = Cardinality(j.matching) + 1
    BY <1>2, <1>3, FS_AddElement
  <2>5. ScanInv(i, j.at)
    <3>1. Cardinality(i.matching) <= cap
      BY <1>2, <1>5, <2>3, <2>4
    <3>2. \A h \in i.matching \cup i.errors : h <= j.at
      BY <1>1, <1>2, <2>3 DEF ScanInv
    <3>3. i.matching \cap i.errors = {}
      BY <1>1, <1>3, <2>3 DEF ScanInv
    <3> QED
      BY <1>1, <2>3, <3>1, <3>2, <3>3 DEF ScanInv
  <2> HIDE DEF i
  <2> QED
    BY <1>1, <2>1, <2>2, <2>3, <2>5, ScanGoesOn
<1>6. CASE job' = [job EXCEPT ![d] = AskHandlers(@, job[d].at)]
  <2>1. ScanInv(j, j.at)
    BY <1>1, <1>2 DEF ScanInv
  <2> QED
    BY <1>1, <1>6, <2>1, ScanGoesOn
<1>7. CASE job' = [job EXCEPT ![d] = Throw(@)]
  <2> DEFINE i == [j EXCEPT !.errors = @ \cup {j.at}]
  <2>1. job' = [job EXCEPT ![d] = AskHandlers(i, j.at)]
    BY <1>7 DEF Throw
  <2>2. i \in Job
    BY <1>1 DEF Job
  <2>3. /\ i.matching = j.matching /\ i.errors = j.errors \cup {j.at} /\ i.ran = j.ran
        /\ i.snapshot = j.snapshot /\ i.stopped = j.stopped /\ i.capped = j.capped
    BY <1>1 DEF Job
  <2>4. ScanInv(i, j.at)
    <3>1. \A h \in i.matching \cup i.errors : h <= j.at
      BY <1>1, <1>2, <2>3 DEF ScanInv
    <3>2. i.matching \cap i.errors = {}
      BY <1>1, <1>3, <2>3 DEF ScanInv
    <3> QED
      BY <1>1, <2>3, <3>1, <3>2 DEF ScanInv
  <2> HIDE DEF i
  <2> QED
    BY <1>1, <2>1, <2>2, <2>3, <2>4, ScanGoesOn
<1> QED
  BY <1>4, <1>5, <1>6, <1>7 DEF HandlerPredicate

LEMMA InvokeMoves ==
  ASSUME RouterInv, NEW d \in Dispatches, Invoke(d)
  PROVE  Moves(d)
<1> DEFINE j == job[d]
           now == IF concurrency = "sequential" THEN {First(NotRun(d))} ELSE NotRun(d)
           ran == [h \in Handler |-> IF h \in now THEN "running" ELSE j.ran[h]]
           k == [j EXCEPT !.ran = ran]
<1>1. /\ j \in Job /\ j.phase = "running" /\ RunInv(j) /\ ~ j.stopped
      /\ RunningNow(d) = {} /\ NotRun(d) # {}
      /\ UNCHANGED <<concurrency, cap, handlers, live>>
  BY DEF Invoke, RouterInv, JobInv
<1>2. NotRun(d) = {h \in j.matching : j.ran[h] = "none"} /\ NotRun(d) \subseteq Handler
  BY <1>1 DEF NotRun, Job
<1>3. First(NotRun(d)) \in NotRun(d) /\ \A h \in NotRun(d) : First(NotRun(d)) <= h
  BY <1>1, <1>2, HandlerSets, FirstIsLeast
<1>4. job' = [job EXCEPT ![d] = k]
  BY DEF Invoke
<1>5. now \subseteq NotRun(d)
  BY <1>3
<1>6. concurrency = "sequential" => now = {First(NotRun(d))}
  OBVIOUS
<1>7. concurrency = "parallel" => now = NotRun(d)
  OBVIOUS
<1> HIDE DEF now
<1>8. ran \in [Handler -> Ending \cup {"none"}]
  BY <1>1 DEF Job, Ending
<1> DEFINE r == ran
<1> HIDE DEF r
<1>9. job'[d] = k /\ k \in Job
  BY <1>1, <1>4, <1>8 DEF RouterInv, Job
<1>10. /\ k.phase = "running" /\ k.at = j.at /\ k.snapshot = j.snapshot /\ k.matching = j.matching
       /\ k.errors = j.errors /\ k.stopped = j.stopped /\ k.capped = j.capped
       /\ \A h \in Handler : k.ran[h] = IF h \in now THEN "running" ELSE j.ran[h]
  BY <1>1, <1>8 DEF Job
<1> HIDE DEF k
<1>11. \A h \in Handler : j.ran[h] \in {"none", "ok", "throw"}
  BY <1>1 DEF RunningNow, RunInv, Job, Ending
<1>12. RunInv(k)
  <2>1. \A h \in Handler : k.ran[h] # "none" => h \in k.matching
    BY <1>1, <1>2, <1>5, <1>10 DEF RunInv
  <2>2. \A h \in Handler : h \in k.errors \cap k.matching <=> k.ran[h] = "throw"
    BY <1>1, <1>2, <1>5, <1>10 DEF RunInv
  <2>3. ~ k.stopped /\ \A h \in Handler : k.ran[h] # "stop"
    BY <1>1, <1>10, <1>11
  <2>4. ASSUME concurrency = "sequential", NEW h \in Handler, NEW m \in j.matching,
               k.ran[h] # "none", m < h
        PROVE  k.ran[m] \in {"ok", "throw"}
    <3> DEFINE f == First(NotRun(d))
    <3> HIDE DEF f
    <3>1. f \in NotRun(d) /\ now = {f} /\ m \in Handler /\ m \in Nat /\ h \in Nat /\ f \in Nat
          /\ \A n \in NotRun(d) : f <= n
      <4>1. m \in Handler /\ j.matching \in SUBSET Handler
        BY <1>1 DEF Job
      <4> QED
        BY <1>2, <1>3, <1>6, <2>4, <4>1, HandlerSets DEF f, Handler
    <3>2. CASE h = f
      <4>1. m \notin NotRun(d) /\ m # f
        BY <2>4, <3>1, <3>2
      <4> QED
        BY <1>2, <1>10, <1>11, <3>1, <4>1
    <3>3. CASE h # f
      <4>1. j.ran[h] # "none"
        BY <1>10, <2>4, <3>1, <3>3
      <4>2. j.ran[m] \in {"ok", "throw"}
        BY <1>1, <2>4, <4>1 DEF RunInv
      <4> QED
        BY <1>2, <1>10, <3>1, <4>2
    <3> QED
      BY <3>2, <3>3
  <2>5. concurrency = "parallel" => \A h \in k.matching : k.ran[h] # "none"
    BY <1>1, <1>2, <1>7, <1>10 DEF Job
  <2> QED
    BY <1>1, <1>10, <2>1, <2>2, <2>3, <2>4, <2>5 DEF RunInv
<1> QED
  BY <1>1, <1>4, <1>9, <1>10, <1>12 DEF Moves, Snap, Told, JobInv

LEMMA SettleMoves ==
  ASSUME RouterInv, NEW d \in Dispatches, NEW h \in Handler, NEW how \in Ending \ {"running"},
         Settle(d, h, how)
  PROVE  Moves(d)
<1> DEFINE j == job[d]
           k == [j EXCEPT !.ran = [j.ran EXCEPT ![h] = how],
                          !.errors = IF how = "throw" THEN j.errors \cup {h} ELSE j.errors,
                          !.stopped = j.stopped \/ how = "stop"]
<1>1. j \in Job /\ JobInv(j) /\ j.ran[h] = "running" /\ UNCHANGED <<concurrency, cap, handlers, live>>
  BY DEF Settle, RunningNow, RouterInv
<1>2. j.phase = "running" /\ RunInv(j)
  BY <1>1 DEF JobInv, Clean, ScanInv, Job, Phase
<1>3. how \in {"ok", "stop", "throw"}
  BY DEF Ending
<1>4. job' = [job EXCEPT ![d] = k]
  BY DEF Settle
<1>5. job'[d] = k
  BY <1>4 DEF RouterInv
<1>6. k \in Job
  <2>1. [j.ran EXCEPT ![h] = how] \in [Handler -> Ending \cup {"none"}]
    BY <1>1 DEF Job
  <2>2. (IF how = "throw" THEN j.errors \cup {h} ELSE j.errors) \in SUBSET Handler
    BY <1>1 DEF Job
  <2>3. (j.stopped \/ how = "stop") \in BOOLEAN
    OBVIOUS
  <2> QED
    BY <1>1, <2>1, <2>2, <2>3 DEF Job
<1>7. /\ k.phase = "running" /\ k.at = j.at /\ k.snapshot = j.snapshot /\ k.matching = j.matching
      /\ k.errors = (IF how = "throw" THEN j.errors \cup {h} ELSE j.errors) /\ k.capped = j.capped
      /\ k.stopped <=> j.stopped \/ how = "stop"
      /\ \A m \in Handler : k.ran[m] = IF m = h THEN how ELSE j.ran[m]
  BY <1>1, <1>2 DEF Job
<1> HIDE DEF k
<1>8. RunInv(k)
  <2>1. \A m \in Handler : k.ran[m] # "none" => m \in k.matching
    BY <1>1, <1>2, <1>7 DEF RunInv
  <2>2. \A m \in Handler : m \in k.errors \cap k.matching <=> k.ran[m] = "throw"
    BY <1>1, <1>2, <1>3, <1>7 DEF RunInv
  <2>3. k.stopped <=> \E m \in Handler : k.ran[m] = "stop"
    BY <1>1, <1>2, <1>3, <1>7 DEF RunInv
  <2>4. concurrency = "sequential" =>
          \A m \in Handler : \A n \in k.matching :
            k.ran[m] # "none" /\ n < m => k.ran[n] \in {"ok", "throw"}
    <3>1. j.matching \subseteq Handler
      BY <1>1 DEF Job
    <3> QED
      BY <1>1, <1>2, <1>7, <3>1 DEF RunInv
  <2>5. concurrency = "parallel" =>
          \/ \A m \in k.matching : k.ran[m] = "none"
          \/ \A m \in k.matching : k.ran[m] # "none"
    <3>1. j.matching \subseteq Handler /\ h \in j.matching
      BY <1>1, <1>2 DEF Job, RunInv
    <3> QED
      BY <1>1, <1>2, <1>3, <1>7, <3>1 DEF RunInv
  <2> QED
    BY <1>2, <1>7, <2>1, <2>2, <2>3, <2>4, <2>5 DEF RunInv
<1> QED
  BY <1>1, <1>2, <1>4, <1>5, <1>6, <1>7, <1>8 DEF Moves, Snap, Told, JobInv

LEMMA ReportMoves ==
  ASSUME RouterInv, NEW d \in Dispatches, Report(d)
  PROVE  Moves(d)
<1> DEFINE j == job[d]
           k == [NoJob EXCEPT !.phase = "reported"]
<1>1. /\ j \in Job /\ j.phase = "running" /\ RunInv(j)
      /\ RunningNow(d) = {} /\ (j.stopped \/ NotRun(d) = {})
      /\ job' = [job EXCEPT ![d] = k] /\ UNCHANGED <<concurrency, cap, handlers, live>>
  BY DEF Report, RouterInv, JobInv
<1>2. job'[d] = k
  BY <1>1 DEF RouterInv
<1>3. k \in Job
  BY DEF Job, NoJob, Phase, Ending
<1>4. k.phase = "reported" /\ k.matching = {} /\ Clean(k)
  BY DEF NoJob, Clean
<1> HIDE DEF k
<1>5. Told(d)
  <2>1. j.errors \cap j.matching = {h \in Handler : j.ran[h] = "throw"}
    BY <1>1 DEF RunInv, Job
  <2>2. j.stopped <=> {h \in Handler : j.ran[h] = "stop"} # {}
    BY <1>1 DEF RunInv
  <2>3. j.stopped = ({h \in Handler : j.ran[h] = "stop"} # {})
    <3>1. j.stopped \in BOOLEAN
      BY <1>1 DEF Job
    <3> QED
      BY <2>2, <3>1
  <2>4. NotRun(d) = {} \/ (concurrency = "sequential" /\ j.stopped)
    <3>1. CASE j.stopped /\ concurrency = "parallel"
      BY <1>1, <3>1 DEF RunInv, NotRun
    <3> QED
      BY <1>1, <3>1 DEF RouterInv
  <2> QED
    BY <1>1, <2>1, <2>3, <2>4 DEF Told, RunInv
<1> QED
  BY <1>1, <1>2, <1>3, <1>4, <1>5 DEF Moves, Snap, JobInv

LEMMA BeginMoves ==
  ASSUME RegistryInv, RouterInv, NEW d \in Dispatches, Begin(d)
  PROVE  Moves(d) /\ job[d].phase = "idle"
<1> DEFINE j == job[d]
           k == AskListeners(j, 0)
<1>1. /\ j \in Job /\ j.phase = "idle" /\ Clean(j)
      /\ job' = [job EXCEPT ![d] = k] /\ UNCHANGED <<concurrency, cap, handlers, live>>
  BY DEF Begin, RouterInv, JobInv
<1>2. job'[d] = k
  BY <1>1 DEF RouterInv
<1>3. /\ k \in Job /\ JobInv(k) /\ k.phase \in {"listening", "scanning", "running"} /\ k.matching = {}
      /\ k.phase = "scanning" => k.snapshot = live /\ k.at \in live
  BY <1>1, ListenersKeep
<1> HIDE DEF k
<1>4. job' = [job EXCEPT ![d] = job'[d]] /\ Told(d)
  BY <1>1, <1>2 DEF Told
<1>5. Snap(j, k)
  BY <1>1, <1>3 DEF Snap
<1> QED
  BY <1>1, <1>2, <1>3, <1>4, <1>5 DEF Moves

LEMMA StepMoves ==
  ASSUME RegistryInv, RouterInv, NEW d \in Dispatches, DispatchStep(d)
  PROVE  /\ Moves(d) /\ RegistryInv' /\ Stay /\ Resolve
         /\ job[d].phase \notin {"idle", "reported"}
<1>1. NoneResolves => Resolve
  BY DEF NoneResolves, Resolve
<1>2. CASE ListenerAccepts(d)
  BY <1>2, AcceptMoves DEF ListenerAccepts
<1>3. ASSUME Moves(d), UNCHANGED registryVars
      PROVE  Moves(d) /\ RegistryInv' /\ Stay /\ Resolve
  BY <1>1, <1>3, RegistryStays
<1>4. CASE ListenerDeclines(d)
  BY <1>3, <1>4, DeclineMoves DEF ListenerDeclines
<1>5. CASE HandlerPredicate(d)
  BY <1>3, <1>5, PredicateMoves DEF HandlerPredicate
<1>6. CASE Invoke(d)
  BY <1>3, <1>6, InvokeMoves DEF Invoke
<1>7. ASSUME NEW h \in Handler, NEW how \in Ending \ {"running"}, Settle(d, h, how)
      PROVE  /\ Moves(d) /\ RegistryInv' /\ Stay /\ Resolve
             /\ job[d].phase \notin {"idle", "reported"}
  <2>1. job[d].phase \notin {"idle", "reported"}
    BY <1>7 DEF Settle, RunningNow, RouterInv, JobInv, Clean
  <2> QED
    BY <1>3, <1>7, <2>1, SettleMoves DEF Settle
<1>8. CASE Report(d)
  BY <1>3, <1>8, ReportMoves DEF Report
<1> QED
  BY <1>2, <1>4, <1>5, <1>6, <1>7, <1>8 DEF DispatchStep

\* The bodies of SnapshotHolds and ReportsAreTrue.
SnapAll ==
  \A d \in Dispatches :
    LET was == job[d]  is == job'[d] IN
    /\ is.phase = "scanning" /\ is # was => is.at \in live' \cap is.snapshot
    /\ is.phase = "scanning" /\ was.phase # "scanning" => is.snapshot = live
    /\ is.matching \subseteq was.matching \cup (IF was.phase = "scanning" THEN {was.at} ELSE {})
    /\ was.phase = "scanning" => is.snapshot \in {{}, was.snapshot}

ToldAll == \A d \in Dispatches : Told(d)

LEMMA JobsStay ==
  ASSUME RouterInv, UNCHANGED <<concurrency, cap, job>>, handlers' \in 0..MaxHandlers, live' \subseteq 1..handlers'
  PROVE  RouterInv' /\ SnapAll /\ ToldAll
<1>1. \A d \in Dispatches : (JobInv(job[d]))'
  BY DEF RouterInv, JobInv, Clean, ScanInv, RunInv
<1>2. RouterInv'
  BY <1>1 DEF RouterInv
<1> QED
  BY <1>2 DEF SnapAll, ToldAll, Told

LEMMA JobMoves ==
  ASSUME RouterInv, NEW d \in Dispatches, Moves(d)
  PROVE  RouterInv' /\ SnapAll /\ ToldAll
<1>1. UNCHANGED <<concurrency, cap, handlers, live>>
  BY DEF Moves
<1>2. \A e \in Dispatches \ {d} : job'[e] = job[e]
  BY DEF Moves, RouterInv
<1>3. job' \in [Dispatches -> Job]
  BY DEF Moves, RouterInv
<1>4. \A e \in Dispatches : JobInv(job'[e])
  BY <1>2 DEF Moves, RouterInv
<1>5. \A e \in Dispatches : (JobInv(job[e]))'
  <2> TAKE e \in Dispatches
  <2>1. JobInv(job'[e])
    BY <1>4
  <2> QED
    BY <1>1, <2>1 DEF JobInv, Clean, ScanInv, RunInv
<1>6. RouterInv'
  BY <1>1, <1>3, <1>5 DEF RouterInv
<1>7. SnapAll
  <2> SUFFICES ASSUME NEW e \in Dispatches PROVE Snap(job[e], job'[e])
    BY <1>1 DEF SnapAll, Snap
  <2>1. CASE e = d
    BY <2>1 DEF Moves
  <2>2. CASE e # d
    BY <1>2, <2>2 DEF Snap
  <2> QED
    BY <2>1, <2>2
<1>8. ToldAll
  <2> SUFFICES ASSUME NEW e \in Dispatches PROVE Told(e)
    BY DEF ToldAll
  <2>1. CASE e = d
    BY <2>1 DEF Moves
  <2>2. CASE e # d
    BY <1>2, <2>2 DEF Told
  <2> QED
    BY <2>1, <2>2
<1> QED
  BY <1>6, <1>7, <1>8

-----------------------------------------------------------------------------
(* The loops of the adapter *)

\* The updates before the current one have been reported, those after it not begun.
LoopInv ==
  /\ updates \in Loads
  /\ current \in [Envelopes -> 0..MaxUpdates]
  /\ answered \subseteq Envelopes
  /\ \A e \in Envelopes :
       /\ \A i \in 1..MaxUpdates :
            /\ i > current[e] => job[<<e, i>>].phase = "idle"
            /\ i < current[e] => job[<<e, i>>].phase = "reported"
       /\ e \in answered =>
            /\ current[e] = updates[e]
            /\ current[e] > 0 => job[<<e, current[e]>>].phase = "reported"

IInv == RegistryInv /\ RouterInv /\ LoopInv

\* The promise of every step.
Good == IInv' /\ Stay /\ Resolve /\ SnapAll /\ ToldAll

LEMMA PairsAreDispatches ==
  \A e \in Envelopes : \A i \in 1..MaxUpdates : <<e, i>> \in Dispatches
BY UpdateDispatchAssumption

LEMMA InitHolds == Init => IInv
<1> SUFFICES ASSUME Init PROVE IInv
  OBVIOUS
<1> USE ListenerRegistryAssumption, TypedRouterAssumption, UpdateDispatchAssumption
<1>1. RegistryInv
  BY FS_EmptySet DEF Init, RegistryInit, RegistryInv, RegistryTypeOK, NothingLeaks, Fate
<1>2. RouterInv
  <2>1. NoJob \in Job /\ Clean(NoJob) /\ NoJob.phase = "idle"
    BY DEF NoJob, Job, Phase, Ending, Clean
  <2>2. job \in [Dispatches -> Job] /\ \A d \in Dispatches : JobInv(job[d])
    BY <2>1 DEF Init, RouterInit, JobInv
  <2> QED
    BY <2>2 DEF Init, RouterInit, RouterInv
<1>3. LoopInv
  BY PairsAreDispatches DEF Init, RouterInit, LoopInv, NoJob
<1> QED
  BY <1>1, <1>2, <1>3 DEF IInv

\* Steps that leave the jobs and the adapter alone.
LEMMA LoopStays ==
  ASSUME LoopInv, UNCHANGED <<job, updates, current, answered>>
  PROVE  LoopInv'
BY DEF LoopInv

LEMMA CallKeeps ==
  ASSUME IInv,
         \/ RegistryCall /\ UNCHANGED <<routerVars, adapterVars>>
         \/ RouterCall /\ UNCHANGED <<registryVars, adapterVars>>
         \/ \E l \in Listener : Fire(l)
         \/ UNCHANGED vars
  PROVE  Good
<1>1. NoneResolves => Resolve
  BY DEF NoneResolves, Resolve
<1>2. RegistryInv' /\ Stay /\ Resolve
  BY <1>1, RejectKeeps, RegistryStays DEF IInv, Fire, vars
<1>3. handlers \in Nat /\ live \subseteq 1..handlers /\ handlers \in 0..MaxHandlers
  BY TypedRouterAssumption DEF IInv, RouterInv
<1>4. UNCHANGED <<concurrency, cap, job>> /\ UNCHANGED <<updates, current, answered>>
  BY DEF RouterCall, Fire, vars, routerVars, adapterVars
<1>5. handlers' \in 0..MaxHandlers /\ live' \subseteq 1..handlers'
  <2>1. CASE RouterCall
    <3>1. CASE On
      <4>1. handlers' = handlers + 1 /\ handlers + 1 \in 0..MaxHandlers /\ live' = live \cup {handlers + 1}
        BY <1>3, <3>1, TypedRouterAssumption DEF On
      <4>2. 1..handlers \subseteq 1..(handlers + 1) /\ handlers + 1 \in 1..(handlers + 1)
        BY <1>3
      <4> QED
        BY <1>3, <4>1, <4>2
    <3>2. CASE ClearHandlers \/ \E h \in Handler : Unregister(h)
      BY <1>3, <2>1, <3>2 DEF RouterCall, ClearHandlers, Unregister
    <3> QED
      BY <2>1, <3>1, <3>2 DEF RouterCall
  <2>2. CASE UNCHANGED routerVars
    BY <1>3, <2>2 DEF routerVars
  <2> QED
    BY <2>1, <2>2 DEF Fire, vars
<1>6. RouterInv' /\ SnapAll /\ ToldAll
  BY <1>4, <1>5, JobsStay DEF IInv
<1>7. LoopInv'
  BY <1>4, LoopStays DEF IInv
<1> QED
  BY <1>2, <1>6, <1>7 DEF IInv, Good

LEMMA HandleKeeps ==
  ASSUME IInv, NEW e \in Envelopes, Handle(e)
  PROVE  Good
<1> USE UpdateDispatchAssumption
<1>1. NoneResolves => Resolve
  BY DEF NoneResolves, Resolve
<1>2. /\ updates[e] \in 0..MaxUpdates /\ current[e] \in 0..MaxUpdates
      /\ \A f \in Envelopes : updates[f] \in 0..MaxUpdates /\ current[f] \in 0..MaxUpdates
  BY DEF IInv, LoopInv
<1>3. CASE DispatchNext(e)
  <2> DEFINE n == current[e] + 1
             d == <<e, n>>
  <2>1. n \in 1..MaxUpdates /\ d \in Dispatches
    BY <1>2, <1>3 DEF DispatchNext
  <2>2. Begin(d) /\ UNCHANGED <<updates, answered>> /\ current' = [current EXCEPT ![e] = n]
        /\ current[e] < updates[e] /\ (current[e] > 0 => job[<<e, current[e]>>].phase = "reported")
    BY <1>3 DEF DispatchNext, LoopMayGoOn
  <2>3. Moves(d)
    BY <2>1, <2>2, BeginMoves DEF IInv
  <2>4. RouterInv' /\ SnapAll /\ ToldAll
    BY <2>1, <2>3, JobMoves DEF IInv
  <2>5. RegistryInv' /\ Stay /\ Resolve
    BY <1>1, <2>2, RegistryStays DEF IInv, Begin
  <2>6. LoopInv'
    <3>1. e \notin answered
      BY <1>2, <2>2 DEF IInv, LoopInv
    <3>2. \A f \in Envelopes : \A i \in 1..MaxUpdates :
            <<f, i>> # d => job'[<<f, i>>] = job[<<f, i>>]
      <4> HIDE DEF d
      <4>1. \A c \in Dispatches : c # d => job'[c] = job[c]
        BY <2>1, <2>3 DEF Moves, IInv, RouterInv
      <4> QED
        BY <4>1, PairsAreDispatches
    <3>3. current' \in [Envelopes -> 0..MaxUpdates] /\ updates' \in Loads /\ answered' \subseteq Envelopes
      BY <2>1, <2>2 DEF IInv, LoopInv
    <3>4. ASSUME NEW f \in Envelopes, NEW i \in 1..MaxUpdates
          PROVE  /\ i > current'[f] => job'[<<f, i>>].phase = "idle"
                 /\ i < current'[f] => job'[<<f, i>>].phase = "reported"
      <4>0. /\ i > current[f] => job[<<f, i>>].phase = "idle"
            /\ i < current[f] => job[<<f, i>>].phase = "reported"
        BY DEF IInv, LoopInv
      <4>1. CASE f = e
        <5>1. current'[f] = n
          BY <2>2, <4>1 DEF IInv, LoopInv
        <5>2. i # n => job'[<<f, i>>] = job[<<f, i>>]
          BY <3>2, <4>1
        <5>3. i = current[e] => job[<<f, i>>].phase = "reported"
          BY <2>2, <4>1
        <5>4. current[e] \in Nat /\ i \in Nat /\ MaxUpdates \in Nat
          BY <1>2
        <5>5. /\ i > current[e] => job[<<f, i>>].phase = "idle"
              /\ i < current[e] => job[<<f, i>>].phase = "reported"
          BY <4>0, <4>1
        <5>6. CASE i > n
          BY <5>1, <5>2, <5>4, <5>5, <5>6
        <5>7. CASE i < n
          BY <5>1, <5>2, <5>3, <5>4, <5>5, <5>7
        <5>8. CASE i = n
          BY <5>1, <5>4, <5>8
        <5> QED
          BY <5>4, <5>6, <5>7, <5>8
      <4>2. CASE f # e
        <5>1. current'[f] = current[f]
          BY <2>2, <4>2 DEF IInv, LoopInv
        <5>2. job'[<<f, i>>] = job[<<f, i>>]
          BY <3>2, <4>2
        <5> QED
          BY <4>0, <5>1, <5>2
      <4> QED
        BY <4>1, <4>2
    <3>5. ASSUME NEW f \in answered'
          PROVE  /\ current'[f] = updates'[f]
                 /\ current'[f] > 0 => job'[<<f, current'[f]>>].phase = "reported"
      <4>1. f \in answered /\ f # e /\ f \in Envelopes
        BY <2>2, <3>1 DEF IInv, LoopInv
      <4>2. current'[f] = current[f] /\ updates' = updates
        BY <2>2, <4>1 DEF IInv, LoopInv
      <4>3. current[f] > 0 => job'[<<f, current[f]>>] = job[<<f, current[f]>>]
        BY <1>2, <3>2, <4>1
      <4> QED
        BY <4>1, <4>2, <4>3 DEF IInv, LoopInv
    <3> QED
      BY <3>3, <3>4, <3>5 DEF LoopInv
  <2> QED
    BY <2>4, <2>5, <2>6 DEF IInv, Good
<1>4. CASE Answer(e)
  <2>1. /\ UNCHANGED <<updates, current, registryVars, routerVars>> /\ answered' = answered \cup {e}
        /\ current[e] = updates[e] /\ (current[e] > 0 => job[<<e, current[e]>>].phase = "reported")
    BY <1>4 DEF Answer, LoopMayGoOn
  <2>2. RegistryInv' /\ Stay /\ Resolve
    BY <1>1, <2>1, RegistryStays DEF IInv
  <2>3. RouterInv' /\ SnapAll /\ ToldAll
    <3>1. UNCHANGED <<concurrency, cap, job>> /\ UNCHANGED <<handlers, live>>
      BY <2>1 DEF routerVars
    <3> QED
      BY <3>1, JobsStay DEF IInv, RouterInv
  <2>4. LoopInv'
    BY <2>1 DEF IInv, LoopInv, routerVars
  <2> QED
    BY <2>2, <2>3, <2>4 DEF IInv, Good
<1>5. ASSUME NEW n \in 1..MaxUpdates, DispatchStep(<<e, n>>), UNCHANGED adapterVars
      PROVE  Good
  <2> DEFINE d == <<e, n>>
  <2>1. d \in Dispatches
    OBVIOUS
  <2>2. Moves(d) /\ RegistryInv' /\ Stay /\ Resolve /\ job[d].phase \notin {"idle", "reported"}
    BY <1>5, <2>1, StepMoves DEF IInv
  <2>3. RouterInv' /\ SnapAll /\ ToldAll
    BY <2>1, <2>2, JobMoves DEF IInv
  <2>4. LoopInv'
    <3>1. UNCHANGED <<updates, current, answered>>
      BY <1>5 DEF adapterVars
    <3>2. \A f \in Envelopes : \A i \in 1..MaxUpdates :
            job[<<f, i>>].phase \in {"idle", "reported"} => job'[<<f, i>>] = job[<<f, i>>]
      <4> HIDE DEF d
      <4>1. \A c \in Dispatches : c # d => job'[c] = job[c]
        BY <2>1, <2>2 DEF Moves, IInv, RouterInv
      <4>2. \A c \in Dispatches : job[c].phase \in {"idle", "reported"} => job'[c] = job[c]
        BY <2>2, <4>1
      <4> QED
        BY <4>2, PairsAreDispatches
    <3>3. \A f \in Envelopes : current[f] > 0 => current[f] \in 1..MaxUpdates
      BY <1>2
    <3> QED
      BY <3>1, <3>2, <3>3 DEF IInv, LoopInv
  <2> QED
    BY <2>2, <2>3, <2>4 DEF IInv, Good
<1> QED
  BY <1>3, <1>4, <1>5 DEF Handle

LEMMA Inductive == IInv /\ [Next]_vars => Good
BY HandleKeeps, CallKeeps DEF Next

LEMMA Invariance == Spec => []IInv
<1>1. IInv /\ [Next]_vars => IInv'
  BY Inductive DEF Good
<1> QED
  BY <1>1, InitHolds, PTL DEF Spec

-----------------------------------------------------------------------------
(* Theorems *)

\* The registries hold what is pending or registered, and nothing else: no promise without
\* its entry, no timer or abort hook without its promise (listener.ts, finalize).
THEOREM Registries == Spec => []RegistriesAreSound
<1>1. IInv => RegistriesAreSound
  BY DEF IInv, RegistryInv, RouterInv, LoopInv, RegistriesAreSound, TypeOK, RouterTypeOK, Job
<1> QED
  BY <1>1, Invariance, PTL

\* A listener's promise settles once, with an update that no other listener gets
\* (listener.ts, evaluate).
THEOREM Waiters == Spec => WaitersSettleOnce
<1>1. IInv /\ [Next]_vars => [Resolve]_vars /\ [Stay]_vars
  BY Inductive DEF Good
<1>2. IInv /\ [Next]_vars => [Resolve]_vars
  BY <1>1
<1>3. IInv /\ [Next]_vars => [Stay]_vars
  BY <1>1
<1>4. Spec => OneUpdateOneWaiter
  BY <1>2, Invariance, PTL DEF Spec, OneUpdateOneWaiter, Resolve
<1>5. Spec => SettledForGood
  BY <1>3, Invariance, PTL DEF Spec, SettledForGood, Stay
<1> QED
  BY <1>4, <1>5 DEF WaitersSettleOnce

\* A dispatch runs handlers that matched, at most cap, one at a time and in order when it is
\* sequential, and none after one that returned "stop" (typedRouter.ts, dispatch).
THEOREM Order == Spec => []HandlersRunInOrder
<1>1. IInv => HandlersRunInOrder
  <2> SUFFICES ASSUME IInv, NEW d \in Dispatches
               PROVE  LET ran == job[d].ran
                          begun == {h \in Handler : ran[h] # "none"}
                      IN /\ begun \subseteq job[d].matching
                         /\ Cardinality(job[d].matching) <= cap
                         /\ concurrency = "sequential" =>
                              /\ Cardinality(RunningNow(d)) <= 1
                              /\ \A h \in begun, k \in job[d].matching : k < h => ran[k] \in {"ok", "throw"}
    BY DEF HandlersRunInOrder
  <2> DEFINE j == job[d]
  <2>1. j \in Job /\ JobInv(j) /\ cap \in Nat
    BY DEF IInv, RouterInv
  <2>2. CASE j.phase # "running"
    <3>1. \A h \in Handler : j.ran[h] = "none"
      BY <2>1, <2>2 DEF JobInv, Clean, ScanInv, Job, Phase
    <3>2. RunningNow(d) = {}
      BY <3>1 DEF RunningNow
    <3>3. Cardinality(j.matching) <= cap
      <4>1. CASE j.phase = "scanning"
        BY <2>1, <4>1 DEF JobInv, ScanInv
      <4>2. CASE j.phase # "scanning"
        <5>1. j.matching = {}
          BY <2>1, <2>2, <4>2 DEF JobInv, Clean, Job, Phase
        <5> QED
          BY <2>1, <5>1, FS_EmptySet
      <4> QED
        BY <4>1, <4>2
    <3>4. Cardinality(RunningNow(d)) <= 1
      BY <3>2, FS_EmptySet
    <3> QED
      BY <3>1, <3>3, <3>4
  <2>3. CASE j.phase = "running"
    <3>1. RunInv(j)
      BY <2>1, <2>3 DEF JobInv
    <3>2. ASSUME concurrency = "sequential" PROVE Cardinality(RunningNow(d)) <= 1
      <4>1. \A h, k \in RunningNow(d) : h = k
        <5> SUFFICES ASSUME NEW h \in RunningNow(d), NEW k \in RunningNow(d), k < h PROVE FALSE
          BY HandlerSets DEF RunningNow, Handler
        <5> QED
          BY <3>1, <3>2 DEF RunInv, RunningNow
      <4>2. CASE RunningNow(d) = {}
        BY <4>2, FS_EmptySet
      <4>3. ASSUME NEW h \in RunningNow(d) PROVE Cardinality(RunningNow(d)) <= 1
        <5>1. RunningNow(d) = {h}
          BY <4>1, <4>3
        <5>2. Cardinality({h}) = 1
          BY FS_Singleton
        <5> QED
          BY <5>1, <5>2
      <4> QED
        BY <4>2, <4>3
    <3> QED
      BY <3>1, <3>2 DEF RunInv
  <2> QED
    BY <2>2, <2>3
<1> QED
  BY <1>1, Invariance, PTL

\* The updates of an envelope are dispatched one after the other, and the envelope is
\* answered when each has been reported (webhookAdapter.ts).
THEOREM Envelope == Spec => []EnvelopesInOrder
<1>1. IInv => EnvelopesInOrder
  <2> SUFFICES ASSUME IInv, NEW e \in Envelopes
               PROVE  /\ \A i, k \in 1..updates[e] : i < k /\ job[<<e, k>>].phase # "idle" =>
                           job[<<e, i>>].phase = "reported"
                      /\ e \in answered => \A i \in 1..updates[e] : job[<<e, i>>].phase = "reported"
    BY DEF EnvelopesInOrder
  <2>1. updates[e] \in 0..MaxUpdates /\ current[e] \in 0..MaxUpdates /\ MaxUpdates \in Nat
    BY UpdateDispatchAssumption DEF IInv, LoopInv
  <2>2. 1..updates[e] \subseteq 1..MaxUpdates
    BY <2>1
  <2>3. \A i \in 1..MaxUpdates :
          /\ i > current[e] => job[<<e, i>>].phase = "idle"
          /\ i < current[e] => job[<<e, i>>].phase = "reported"
    BY DEF IInv, LoopInv
  <2>4. ASSUME NEW i \in 1..updates[e], NEW k \in 1..updates[e], i < k, job[<<e, k>>].phase # "idle"
        PROVE  job[<<e, i>>].phase = "reported"
    <3>1. k <= current[e] /\ i < current[e]
      BY <2>1, <2>2, <2>3, <2>4
    <3> QED
      BY <2>2, <2>3, <3>1
  <2>5. ASSUME e \in answered, NEW i \in 1..updates[e] PROVE job[<<e, i>>].phase = "reported"
    <3>1. current[e] = updates[e] /\ (current[e] > 0 => job[<<e, current[e]>>].phase = "reported")
      BY <2>5 DEF IInv, LoopInv
    <3>2. i < current[e] \/ (i = current[e] /\ current[e] > 0)
      BY <2>1, <3>1
    <3> QED
      BY <2>2, <2>3, <3>1, <3>2
  <2> QED
    BY <2>4, <2>5
<1> QED
  BY <1>1, Invariance, PTL

\* From its snapshot on, a dispatch asks only handlers that were registered and still are
\* (typedRouter.ts, dispatch).
THEOREM Snapshot == Spec => SnapshotHolds
<1>1. IInv /\ [Next]_vars => [SnapAll]_vars
  BY Inductive DEF Good
<1> QED
  BY <1>1, Invariance, PTL DEF Spec, SnapshotHolds, SnapAll

\* The report of a dispatch tells which handlers threw, whether one stopped it and whether
\* the limit left a match out (typedRouter.ts, DispatchReport).
THEOREM Reports == Spec => ReportsAreTrue
<1>1. IInv /\ [Next]_vars => [ToldAll]_vars
  BY Inductive DEF Good
<1> QED
  BY <1>1, Invariance, PTL DEF Spec, ReportsAreTrue, ToldAll, Told

=============================================================================
