------------------------ MODULE WebhookIngress_proofs -------------------------
(***************************************************************************)
(* Proofs about WebhookIngress, for any deliveries, updates, envelopes,    *)
(* requests, clocks and limits.                                            *)
(***************************************************************************)
EXTENDS WebhookIngress, SequenceTheorems, WellFoundedInduction, TLAPS

-----------------------------------------------------------------------------
(* The normalizer: loops *)

\* Induction on the turns of a loop, on the set of those after which something holds.
LEMMA TurnByTurn ==
  ASSUME NEW n \in Nat, NEW S, 0 \in S, \A k \in 1 .. n : k - 1 \in S => k \in S
  PROVE  0 .. n \subseteq S
<1> DEFINE R == OpToRel(<, Nat)
           T == (0 .. n) \ S
<1>1. IsWellFoundedOn(R, Nat)
  BY NatLessThanWellFounded
<1>2. \A x, y \in Nat : y < x => <<y, x>> \in R
  BY DEF OpToRel
<1> SUFFICES ASSUME T # {} PROVE FALSE
  OBVIOUS
<1>3. T \subseteq Nat
  OBVIOUS
<1> HIDE DEF R
<1>4. PICK x \in T : \A y \in T : ~ (<<y, x>> \in R)
  <2> HIDE DEF T
  <2> QED
    BY <1>1, <1>3, WFMin
<1>5. x \in 1 .. n /\ x \notin S
  OBVIOUS
<1>6. x - 1 \in T /\ x - 1 < x /\ x \in Nat /\ x - 1 \in Nat
  BY <1>5
<1> QED
  BY <1>2, <1>4, <1>6, Zenon

\* A loop has a value after each of its turns.
LEMMA LoopHasValues ==
  ASSUME NEW A, NEW start \in A, NEW n \in Nat, NEW turn \in [1 .. n -> [A -> A]]
  PROVE  \E f \in [0 .. n -> A] :
           f[0] = start /\ \A k \in 1 .. n : f[k] = turn[k][f[k - 1]]
<1> DEFINE Runs(f, m) == f[0] = start /\ \A k \in 1 .. m : f[k] = turn[k][f[k - 1]]
           S == {m \in 0 .. n : \E f \in [0 .. m -> A] : Runs(f, m)}
<1>1. 0 \in S
  <2> DEFINE g == [k \in 0 .. 0 |-> start]
  <2>1. g \in [0 .. 0 -> A] /\ g[0] = start /\ \A k \in 1 .. 0 : g[k] = turn[k][g[k - 1]]
    OBVIOUS
  <2>2. 0 \in 0 .. n
    OBVIOUS
  <2> QED
    BY <2>1, <2>2, Zenon
<1>2. ASSUME NEW m \in 1 .. n, m - 1 \in S PROVE m \in S
  <2>1. PICK f \in [0 .. (m - 1) -> A] : Runs(f, m - 1)
    BY <1>2
  <2> DEFINE g == [k \in 0 .. m |-> IF k = m THEN turn[m][f[m - 1]] ELSE f[k]]
  <2>2. turn[m] \in [A -> A] /\ f[m - 1] \in A
    OBVIOUS
  <2>3. g \in [0 .. m -> A]
    BY <2>2
  <2>4. g[0] = start
    BY <2>1
  <2>5. ASSUME NEW k \in 1 .. m PROVE g[k] = turn[k][g[k - 1]]
    <3>1. CASE k = m
      BY <3>1
    <3>2. CASE k # m
      <4>1. k \in 1 .. (m - 1) /\ k - 1 \in 0 .. (m - 1) /\ k - 1 # m
        BY <3>2
      <4>2. g[k] = f[k] /\ g[k - 1] = f[k - 1]
        BY <4>1, <3>2
      <4> QED
        BY <2>1, <4>1, <4>2
    <3> QED
      BY <3>1, <3>2
  <2>6. m \in 0 .. n
    OBVIOUS
  <2> HIDE DEF g
  <2> QED
    BY <2>3, <2>4, <2>5, <2>6, Zenon
<1> HIDE DEF S
<1>3. n \in S
  <2>1. 0 .. n \subseteq S
    BY <1>1, <1>2, TurnByTurn
  <2> QED
    BY <2>1
<1> QED
  BY <1>3 DEF S

\* What accumulators are.
Acc == [updates : Seq(Item \ Malformed), skipped : Nat, overflow : Nat, limitHit : BOOLEAN]

LEMMA AccLoopHasValues ==
  \A start \in Acc : \A n \in Nat : \A turn \in [1 .. n -> [Acc -> Acc]] :
    \E f \in [0 .. n -> Acc] :
      f[0] = start /\ \A k \in 1 .. n : f[k] = turn[k][f[k - 1]]
BY LoopHasValues

LEMMA SkipType == ASSUME NEW acc \in Acc PROVE Skip(acc) \in Acc /\ Beyond(acc) \in Acc
<1>1. acc.skipped + 1 \in Nat /\ acc.overflow + 1 \in Nat /\ TRUE \in BOOLEAN
  BY DEF Acc
<1> QED
  BY <1>1 DEF Skip, Beyond, Acc

LEMMA ItemType ==
  ASSUME NEW acc \in Acc, NEW i \in Item PROVE NormalizeItem(acc, i) \in Acc
<1>1. Skip(acc) \in Acc /\ Beyond(acc) \in Acc
  BY SkipType
<1>2. i \notin Malformed => [acc EXCEPT !.updates = Append(@, i)] \in Acc
  <2>1. acc.updates \in Seq(Item \ Malformed)
    BY DEF Acc
  <2>2. i \notin Malformed => Append(acc.updates, i) \in Seq(Item \ Malformed)
    BY <2>1, AppendProperties
  <2> QED
    BY <2>2 DEF Acc
<1>3. i \notin Malformed => PushUpdate(acc, i) \in Acc
  BY <1>1, <1>2 DEF PushUpdate
<1> QED
  BY <1>1, <1>3 DEF NormalizeItem, Acc

LEMMA ItemLoop ==
  ASSUME NEW acc \in Acc, NEW items \in Seq(Item)
  PROVE  \E after \in [0 .. Len(items) -> Acc] :
           /\ after[0] = acc /\ NormalizeItems(acc, items) = after[Len(items)]
           /\ \A k \in 1 .. Len(items) : after[k] = NormalizeItem(after[k - 1], items[k])
<1> DEFINE Runs(f) == f = [k \in 0 .. Len(items) |->
                             IF k = 0 THEN acc ELSE NormalizeItem(f[k - 1], items[k])]
           after == CHOOSE f : Runs(f)
<1>1. Len(items) \in Nat /\ \A k \in 1 .. Len(items) : items[k] \in Item
  BY LenProperties, ElementOfSeq
<1>2. PICK turn \in [1 .. Len(items) -> [Acc -> Acc]] :
        \A k \in 1 .. Len(items) : \A a \in Acc : turn[k][a] = NormalizeItem(a, items[k])
  <2>1. [k \in 1 .. Len(items) |-> [a \in Acc |-> NormalizeItem(a, items[k])]]
          \in [1 .. Len(items) -> [Acc -> Acc]]
    BY <1>1, ItemType
  <2> QED
    BY <2>1
<1>3. PICK f \in [0 .. Len(items) -> Acc] :
        f[0] = acc /\ \A k \in 1 .. Len(items) : f[k] = turn[k][f[k - 1]]
  <2> HIDE DEF after, Runs
  <2>1. Len(items) \in Nat
    BY <1>1
  <2> QED
    BY <2>1, AccLoopHasValues
<1>4. \A k \in 1 .. Len(items) : k - 1 \in 0 .. Len(items) /\ f[k] = NormalizeItem(f[k - 1], items[k])
  BY <1>1, <1>2, <1>3
<1>5. Runs(f)
  BY <1>1, <1>3, <1>4
<1>6. Runs(after)
  <2> HIDE DEF NormalizeItem
  <2> QED
    BY <1>5
<1>7. NormalizeItems(acc, items) = after[Len(items)]
  BY DEF NormalizeItems
<1> HIDE DEF after
<1>8. /\ after[0] = acc
      /\ \A k \in 1 .. Len(items) : after[k] = NormalizeItem(after[k - 1], items[k])
  BY <1>1, <1>6
<1>9. \A k \in 0 .. Len(items) : after[k] \in Acc
  <2> DEFINE S == {k \in 0 .. Len(items) : after[k] \in Acc}
  <2>1. 0 \in S
    BY <1>1, <1>8
  <2>2. \A k \in 1 .. Len(items) : k - 1 \in S => k \in S
    BY <1>1, <1>8, ItemType
  <2>3. 0 .. Len(items) \subseteq S
    <3> HIDE DEF S
    <3> QED
      BY <1>1, <2>1, <2>2, TurnByTurn
  <2> QED
    BY <2>3
<1>10. after \in [0 .. Len(items) -> Acc]
  BY <1>6, <1>9
<1> QED
  BY <1>7, <1>8, <1>10
LEMMA ChangeType ==
  ASSUME NEW acc \in Acc, NEW c \in Change PROVE NormalizeChange(acc, c) \in Acc
<1>1. Skip(acc) \in Acc /\ Beyond(acc) \in Acc
  BY SkipType
<1>2. NormalizeItems(acc, c.items) \in Acc
  <2>1. c.items \in Seq(Item)
    BY DEF Change
  <2>2. Len(c.items) \in 0 .. Len(c.items)
    BY <2>1, LenProperties
  <2> QED
    BY <2>1, <2>2, ItemLoop
<1> QED
  BY <1>1, <1>2 DEF NormalizeChange, Acc

LEMMA ChangeLoop ==
  ASSUME NEW acc \in Acc, NEW changes \in Seq(Change)
  PROVE  \E after \in [0 .. Len(changes) -> Acc] :
           /\ after[0] = acc /\ NormalizeChanges(acc, changes) = after[Len(changes)]
           /\ \A k \in 1 .. Len(changes) : after[k] = NormalizeChange(after[k - 1], changes[k])
<1> DEFINE Runs(f) == f = [k \in 0 .. Len(changes) |->
                             IF k = 0 THEN acc ELSE NormalizeChange(f[k - 1], changes[k])]
           after == CHOOSE f : Runs(f)
<1>1. Len(changes) \in Nat /\ \A k \in 1 .. Len(changes) : changes[k] \in Change
  BY LenProperties, ElementOfSeq
<1>2. PICK turn \in [1 .. Len(changes) -> [Acc -> Acc]] :
        \A k \in 1 .. Len(changes) : \A a \in Acc : turn[k][a] = NormalizeChange(a, changes[k])
  <2>1. [k \in 1 .. Len(changes) |-> [a \in Acc |-> NormalizeChange(a, changes[k])]]
          \in [1 .. Len(changes) -> [Acc -> Acc]]
    BY <1>1, ChangeType
  <2> QED
    BY <2>1
<1>3. PICK f \in [0 .. Len(changes) -> Acc] :
        f[0] = acc /\ \A k \in 1 .. Len(changes) : f[k] = turn[k][f[k - 1]]
  <2> HIDE DEF after, Runs
  <2>1. Len(changes) \in Nat
    BY <1>1
  <2> QED
    BY <2>1, AccLoopHasValues
<1>4. \A k \in 1 .. Len(changes) : k - 1 \in 0 .. Len(changes) /\ f[k] = NormalizeChange(f[k - 1], changes[k])
  BY <1>1, <1>2, <1>3
<1>5. Runs(f)
  BY <1>1, <1>3, <1>4
<1>6. Runs(after)
  <2> HIDE DEF NormalizeItem
  <2> QED
    BY <1>5
<1>7. NormalizeChanges(acc, changes) = after[Len(changes)]
  BY DEF NormalizeChanges
<1> HIDE DEF after
<1>8. /\ after[0] = acc
      /\ \A k \in 1 .. Len(changes) : after[k] = NormalizeChange(after[k - 1], changes[k])
  BY <1>1, <1>6
<1>9. \A k \in 0 .. Len(changes) : after[k] \in Acc
  <2> DEFINE S == {k \in 0 .. Len(changes) : after[k] \in Acc}
  <2>1. 0 \in S
    BY <1>1, <1>8
  <2>2. \A k \in 1 .. Len(changes) : k - 1 \in S => k \in S
    BY <1>1, <1>8, ChangeType
  <2>3. 0 .. Len(changes) \subseteq S
    <3> HIDE DEF S
    <3> QED
      BY <1>1, <2>1, <2>2, TurnByTurn
  <2> QED
    BY <2>3
<1>10. after \in [0 .. Len(changes) -> Acc]
  BY <1>6, <1>9
<1> QED
  BY <1>7, <1>8, <1>10
LEMMA EntryType ==
  ASSUME NEW acc \in Acc, NEW e \in Entry PROVE NormalizeEntry(acc, e) \in Acc
<1>1. Skip(acc) \in Acc
  BY SkipType
<1>2. NormalizeChanges(acc, e.changes) \in Acc
  <2>1. e.changes \in Seq(Change)
    BY DEF Entry
  <2>2. Len(e.changes) \in 0 .. Len(e.changes)
    BY <2>1, LenProperties
  <2> QED
    BY <2>1, <2>2, ChangeLoop
<1> QED
  BY <1>1, <1>2 DEF NormalizeEntry

LEMMA NothingType == Nothing \in Acc
BY EmptySeq DEF Nothing, Acc

LEMMA EntryLoop ==
  ASSUME NEW e \in Seq(Entry)
  PROVE  \E after \in [0 .. Len(e) -> Acc] :
           /\ after[0] = Nothing /\ Normalize(e) = after[Len(e)]
           /\ \A k \in 1 .. Len(e) : after[k] = NormalizeEntry(after[k - 1], e[k])
<1> DEFINE Runs(f) == f = [k \in 0 .. Len(e) |->
                             IF k = 0 THEN Nothing ELSE NormalizeEntry(f[k - 1], e[k])]
           after == CHOOSE f : Runs(f)
<1>1. Nothing \in Acc /\ Len(e) \in Nat /\ \A k \in 1 .. Len(e) : e[k] \in Entry
  BY LenProperties, ElementOfSeq, NothingType
<1>2. PICK turn \in [1 .. Len(e) -> [Acc -> Acc]] :
        \A k \in 1 .. Len(e) : \A a \in Acc : turn[k][a] = NormalizeEntry(a, e[k])
  <2>1. [k \in 1 .. Len(e) |-> [a \in Acc |-> NormalizeEntry(a, e[k])]]
          \in [1 .. Len(e) -> [Acc -> Acc]]
    BY <1>1, EntryType
  <2> QED
    BY <2>1
<1>3. PICK f \in [0 .. Len(e) -> Acc] :
        f[0] = Nothing /\ \A k \in 1 .. Len(e) : f[k] = turn[k][f[k - 1]]
  <2> HIDE DEF after, Runs
  <2>1. Len(e) \in Nat /\ Nothing \in Acc
    BY <1>1
  <2> QED
    BY <2>1, AccLoopHasValues
<1>4. \A k \in 1 .. Len(e) : k - 1 \in 0 .. Len(e) /\ f[k] = NormalizeEntry(f[k - 1], e[k])
  BY <1>1, <1>2, <1>3
<1>5. Runs(f)
  BY <1>1, <1>3, <1>4
<1>6. Runs(after)
  <2> HIDE DEF NormalizeItem
  <2> QED
    BY <1>5
<1>7. Normalize(e) = after[Len(e)]
  BY DEF Normalize
<1> HIDE DEF after
<1>8. /\ after[0] = Nothing
      /\ \A k \in 1 .. Len(e) : after[k] = NormalizeEntry(after[k - 1], e[k])
  BY <1>1, <1>6
<1>9. \A k \in 0 .. Len(e) : after[k] \in Acc
  <2> DEFINE S == {k \in 0 .. Len(e) : after[k] \in Acc}
  <2>1. 0 \in S
    BY <1>1, <1>8
  <2>2. \A k \in 1 .. Len(e) : k - 1 \in S => k \in S
    BY <1>1, <1>8, EntryType
  <2>3. 0 .. Len(e) \subseteq S
    <3> HIDE DEF S
    <3> QED
      BY <1>1, <2>1, <2>2, TurnByTurn
  <2> QED
    BY <2>3
<1>10. after \in [0 .. Len(e) -> Acc]
  BY <1>6, <1>9
<1> QED
  BY <1>7, <1>8, <1>10
-----------------------------------------------------------------------------
(* The normalizer: places *)

Place == Nat \X Nat \X Nat

\* Something legible is at <<n, m, k>>.
LegibleAt(e, n, m, k) ==
  /\ n \in 1 .. Len(e) /\ e[n].legible
  /\ m \in 1 .. Len(e[n].changes) /\ e[n].changes[m].legible
  /\ k \in 1 .. Len(e[n].changes[m].items) /\ e[n].changes[m].items[k] \notin Malformed

LEMMA PlacesOf ==
  ASSUME NEW e \in Seq(Entry)
  PROVE  \A n, m, k : <<n, m, k>> \in Legible(e) <=> LegibleAt(e, n, m, k)
<1>1. DOMAIN e = 1 .. Len(e)
  BY LenProperties
<1>2. \A n \in 1 .. Len(e) :
        /\ e[n].changes \in Seq(Change)
        /\ DOMAIN e[n].changes = 1 .. Len(e[n].changes)
  <2> TAKE n \in 1 .. Len(e)
  <2>1. e[n] \in Entry
    BY ElementOfSeq
  <2>2. e[n].changes \in Seq(Change)
    BY <2>1 DEF Entry
  <2> QED
    BY <2>2, LenProperties
<1>3. \A n \in 1 .. Len(e) : \A m \in 1 .. Len(e[n].changes) :
        DOMAIN e[n].changes[m].items = 1 .. Len(e[n].changes[m].items)
  <2> TAKE n \in 1 .. Len(e)
  <2> TAKE m \in 1 .. Len(e[n].changes)
  <2>1. e[n].changes[m] \in Change
    BY <1>2, ElementOfSeq
  <2>2. e[n].changes[m].items \in Seq(Item)
    BY <2>1 DEF Change
  <2> QED
    BY <2>2, LenProperties
<1> TAKE n, m, k
<1>4. <<n, m, k>> \in Places(e) <=>
        \E a \in {a \in DOMAIN e : e[a].legible} :
          \E b \in {b \in DOMAIN e[a].changes : e[a].changes[b].legible} :
            \E c \in DOMAIN e[a].changes[b].items : <<n, m, k>> = <<a, b, c>>
  BY DEF Places
<1>5. <<n, m, k>> \in Places(e) <=>
        /\ n \in {a \in DOMAIN e : e[a].legible}
        /\ m \in {b \in DOMAIN e[n].changes : e[n].changes[b].legible}
        /\ k \in DOMAIN e[n].changes[m].items
  BY <1>4
<1>6. ItemAt(e, <<n, m, k>>) = e[n].changes[m].items[k]
  BY DEF ItemAt
<1>7. <<n, m, k>> \in Places(e) <=>
        /\ n \in 1 .. Len(e) /\ e[n].legible
        /\ m \in 1 .. Len(e[n].changes) /\ e[n].changes[m].legible
        /\ k \in 1 .. Len(e[n].changes[m].items)
  BY <1>1, <1>2, <1>3, <1>5
<1> QED
  BY <1>6, <1>7 DEF Legible, LegibleAt

LEMMA LegiblePlace ==
  ASSUME NEW e \in Seq(Entry), NEW p \in Legible(e)
  PROVE  \E n, m, k \in Nat \ {0} : p = <<n, m, k>> /\ LegibleAt(e, n, m, k)
<1>1. PICK n, m, k : p = <<n, m, k>>
  BY DEF Legible, Places
<1>2. LegibleAt(e, n, m, k)
  BY <1>1, PlacesOf
<1>3. n \in Nat \ {0} /\ m \in Nat \ {0} /\ k \in Nat \ {0}
  BY <1>2 DEF LegibleAt
<1> QED
  BY <1>1, <1>2, <1>3

LEMMA PlaceType == ASSUME NEW e \in Seq(Entry) PROVE Legible(e) \subseteq Place
BY LegiblePlace DEF Place

LEMMA PrecedesIsStrict ==
  ASSUME NEW p \in Place, NEW q \in Place
  PROVE  /\ Precedes(p, q) => ~ Precedes(q, p)
         /\ ~ Precedes(p, p)
BY DEF Place, Precedes

LEMMA PrecedesIsTotal ==
  ASSUME NEW p \in Place, NEW q \in Place, NEW r \in Place, ~ Precedes(r, p), Precedes(r, q)
  PROVE  Precedes(p, q)
BY DEF Place, Precedes

-----------------------------------------------------------------------------
(* The normalizer: what has been read of some of the places *)

\* The accumulator is a reading of these places; and what a later item may repeat is among
\* its updates, as long as the limit is not hit.
Reads(e, places, acc) ==
  /\ IsReading(e, places, acc.updates, acc.limitHit)
  /\ ~ acc.limitHit =>
       \A q \in places : \E k \in DOMAIN acc.updates :
         UpdateId[acc.updates[k]] = UpdateId[ItemAt(e, q)]

\* The conjuncts of IsReading, for a given list of the places of the updates.
ReadsAt(e, places, acc, at) ==
  /\ at \in [DOMAIN acc.updates -> Firsts(e, places)]
  /\ \A k \in DOMAIN acc.updates : acc.updates[k] = ItemAt(e, at[k])
  /\ \A j, k \in DOMAIN acc.updates : j < k => Precedes(at[j], at[k])
  /\ Len(acc.updates) <= MaxEvents
  /\ Firsts(e, places) \ Range(at) # {} => Len(acc.updates) = MaxEvents
  /\ \A p \in Firsts(e, places) \ Range(at), k \in DOMAIN acc.updates : Precedes(at[k], p)
  /\ acc.limitHit <=> Firsts(e, places) \ Range(at) # {}

LEMMA ReadingIsAt ==
  ASSUME NEW e, NEW places, NEW acc
  PROVE  IsReading(e, places, acc.updates, acc.limitHit) <=> \E at : ReadsAt(e, places, acc, at)
BY DEF IsReading, ReadsAt

LEMMA FirstsStayFirst ==
  ASSUME NEW e, NEW S, NEW T \in SUBSET Place, S \subseteq T,
         \A s \in S, p \in T \ S : Precedes(s, p)
  PROVE  Firsts(e, S) = Firsts(e, T) \cap S
<1>1. \A p \in S, q \in T \ S : ~ Precedes(q, p)
  BY PrecedesIsStrict
<1> QED
  BY <1>1 DEF Firsts

\* Nothing is done about places past the limit.
LEMMA ReadsPastTheLimit ==
  ASSUME NEW e, NEW S, NEW T \in SUBSET Place, S \subseteq T,
         \A s \in S, p \in T \ S : Precedes(s, p),
         NEW acc, Reads(e, S, acc), acc.limitHit,
         NEW new, new.updates = acc.updates, new.limitHit
  PROVE  Reads(e, T, new)
<1>1. PICK at : ReadsAt(e, S, acc, at)
  BY ReadingIsAt DEF Reads
<1> DEFINE rest == Firsts(e, S) \ Range(at)
           more == Firsts(e, T) \ Range(at)
<1>2. Firsts(e, S) = Firsts(e, T) \cap S
  BY FirstsStayFirst
<1>3. at \in [DOMAIN new.updates -> Firsts(e, T)] /\ \A k \in DOMAIN new.updates : at[k] \in S
  BY <1>1, <1>2 DEF ReadsAt
<1>4. rest # {} /\ rest \subseteq more /\ more \subseteq rest \cup (T \ S)
  BY <1>1, <1>2 DEF ReadsAt, Firsts
<1>5. \A p \in more, k \in DOMAIN new.updates : Precedes(at[k], p)
  BY <1>1, <1>3, <1>4 DEF ReadsAt
<1>6. ReadsAt(e, T, new, at)
  BY <1>1, <1>3, <1>4, <1>5 DEF ReadsAt
<1> QED
  BY <1>6, ReadingIsAt DEF Reads

\* Places that are none change nothing.
LEMMA ReadsTheSame ==
  ASSUME NEW e, NEW S, NEW acc, Reads(e, S, acc),
         NEW new, new.updates = acc.updates, new.limitHit = acc.limitHit
  PROVE  Reads(e, S, new)
BY DEF Reads

\* A legible item is read by pushUpdate().
LEMMA ReadsOneMore ==
  ASSUME NEW e, NEW S, NEW p \in Place, S \subseteq Place,
         \A s \in S : Precedes(s, p), ItemAt(e, p) \in Item \ Malformed,
         NEW acc \in Acc, Reads(e, S, acc), ~ acc.limitHit
  PROVE  Reads(e, S \cup {p}, PushUpdate(acc, ItemAt(e, p)))
<1> DEFINE i == ItemAt(e, p)
           T == S \cup {p}
           new == PushUpdate(acc, i)
<1>1. PICK at : ReadsAt(e, S, acc, at)
  BY ReadingIsAt DEF Reads
<1>2. /\ acc.updates \in Seq(Item \ Malformed) /\ Len(acc.updates) \in Nat
      /\ DOMAIN acc.updates = 1 .. Len(acc.updates)
  BY LenProperties DEF Acc
<1>3. Seen(acc, i) <=> \E k \in DOMAIN acc.updates : UpdateId[acc.updates[k]] = UpdateId[i]
  BY DEF Seen, Range
<1>4. Firsts(e, S) = Firsts(e, T) \cap S /\ T \subseteq Place /\ p \notin S
  <2>1. p \notin S
    BY PrecedesIsStrict
  <2>2. T \in SUBSET Place /\ S \subseteq T /\ \A s \in S, q \in T \ S : Precedes(s, q)
    OBVIOUS
  <2> QED
    BY <2>1, <2>2, FirstsStayFirst
<1>5. Firsts(e, S) \ Range(at) = {}
  BY <1>1 DEF ReadsAt
<1>6. at \in [DOMAIN acc.updates -> Firsts(e, T)] /\ \A k \in DOMAIN acc.updates : at[k] \in S
  BY <1>1, <1>4 DEF ReadsAt
<1>7. CASE Seen(acc, i)
  <2>1. new = Skip(acc) /\ new.updates = acc.updates /\ new.limitHit = acc.limitHit
    BY <1>7 DEF PushUpdate, Skip, Acc
  <2>2. p \notin Firsts(e, T)
    <3>1. PICK k \in DOMAIN acc.updates : UpdateId[acc.updates[k]] = UpdateId[i]
      BY <1>3, <1>7
    <3>2. at[k] \in T /\ UpdateId[ItemAt(e, at[k])] = UpdateId[i] /\ Precedes(at[k], p)
      BY <1>1, <1>6, <3>1 DEF ReadsAt
    <3> QED
      BY <3>2 DEF Firsts
  <2>3. Firsts(e, T) = Firsts(e, S)
    BY <1>4, <2>2 DEF Firsts
  <2>4. ReadsAt(e, T, new, at)
    BY <1>1, <2>1, <2>3 DEF ReadsAt
  <2>5. \A q \in T : \E k \in DOMAIN new.updates :
          UpdateId[new.updates[k]] = UpdateId[ItemAt(e, q)]
    BY <1>3, <1>7, <2>1 DEF Reads
  <2> QED
    BY <2>4, <2>5, ReadingIsAt DEF Reads
<1>8. CASE ~ Seen(acc, i)
  <2>1. Firsts(e, T) = Firsts(e, S) \cup {p}
    <3>1. \A q \in S : UpdateId[ItemAt(e, q)] # UpdateId[i]
      BY <1>3, <1>8 DEF Reads
    <3>2. p \in Firsts(e, T)
      BY <3>1, PrecedesIsStrict DEF Firsts
    <3> QED
      BY <1>4, <3>2 DEF Firsts
  <2>2. CASE Len(acc.updates) >= MaxEvents
    <3>1. new = Beyond(acc) /\ new.updates = acc.updates /\ new.limitHit
      BY <1>8, <2>2 DEF PushUpdate, Beyond, Acc
    <3>2. Firsts(e, T) \ Range(at) = {p}
      BY <1>4, <1>5, <1>6, <2>1 DEF Range
    <3>3. Len(acc.updates) = MaxEvents
      BY <1>1, <1>2, <2>2, NormalizerAssumption DEF ReadsAt
    <3>4. ReadsAt(e, T, new, at)
      BY <1>1, <1>6, <3>1, <3>2, <3>3 DEF ReadsAt
    <3> QED
      BY <3>1, <3>4, ReadingIsAt DEF Reads
  <2>3. CASE ~ (Len(acc.updates) >= MaxEvents)
    <3> DEFINE n == Len(acc.updates)
               to == [k \in 1 .. (n + 1) |-> IF k = n + 1 THEN p ELSE at[k]]
    <3>1. new = [acc EXCEPT !.updates = Append(@, i)]
      BY <1>8, <2>3 DEF PushUpdate
    <3>2. new.updates = Append(acc.updates, i) /\ new.limitHit = acc.limitHit
      BY <3>1 DEF Acc
    <3>3. /\ Len(new.updates) = n + 1 /\ DOMAIN new.updates = 1 .. (n + 1)
          /\ \A k \in 1 .. n : new.updates[k] = acc.updates[k]
          /\ new.updates[n + 1] = i
      <4>1. Append(acc.updates, i) \in Seq(Item \ Malformed)
        BY <1>2, AppendProperties
      <4> QED
        BY <1>2, <3>2, <4>1, AppendProperties, LenProperties
    <3> HIDE DEF new, i, T
    <3>4. to \in [DOMAIN new.updates -> Firsts(e, T)]
      BY <1>2, <1>6, <2>1, <3>3
    <3>5. Range(at) \cup {p} \subseteq Range(to)
      <4>1. DOMAIN to = 1 .. (n + 1) /\ DOMAIN at = 1 .. n
        BY <1>2, <1>6
      <4>2. /\ n + 1 \in 1 .. (n + 1) /\ to[n + 1] = p
            /\ \A k \in 1 .. n : k \in 1 .. (n + 1) /\ to[k] = at[k]
        BY <1>2
      <4> HIDE DEF to, n
      <4> QED
        BY <4>1, <4>2 DEF Range
    <3>6. Firsts(e, T) \ Range(to) = {}
      BY <1>5, <2>1, <3>5
    <3>7. \A k \in DOMAIN new.updates : new.updates[k] = ItemAt(e, to[k])
      BY <1>1, <1>2, <3>3 DEF ReadsAt, i
    <3>8. \A j, k \in DOMAIN new.updates : j < k => Precedes(to[j], to[k])
      BY <1>1, <1>2, <1>6, <3>3 DEF ReadsAt
    <3>9. n + 1 <= MaxEvents
      BY <1>2, <2>3, NormalizerAssumption
    <3>10. ReadsAt(e, T, new, to)
      <4> HIDE DEF to, n
      <4> QED
        BY <3>2, <3>3, <3>4, <3>6, <3>7, <3>8, <3>9 DEF ReadsAt
    <3>11. \A q \in T : \E k \in DOMAIN new.updates :
             UpdateId[new.updates[k]] = UpdateId[ItemAt(e, q)]
      <4>1. \A q \in S : \E k \in 1 .. n : UpdateId[acc.updates[k]] = UpdateId[ItemAt(e, q)]
        BY <1>2 DEF Reads
      <4>2. n + 1 \in 1 .. (n + 1) /\ 1 .. n \subseteq 1 .. (n + 1)
        BY <1>2
      <4> HIDE DEF n
      <4>3. \A q \in S : \E k \in 1 .. (n + 1) :
              UpdateId[new.updates[k]] = UpdateId[ItemAt(e, q)]
        BY <3>3, <4>1, <4>2
      <4>4. UpdateId[new.updates[n + 1]] = UpdateId[ItemAt(e, p)]
        BY <3>3 DEF i
      <4> QED
        BY <3>3, <4>2, <4>3, <4>4 DEF T
    <3>12. Reads(e, T, new)
      BY <3>10, <3>11, ReadingIsAt DEF Reads
    <3> QED
      BY <3>12 DEF T, new, i
  <2> QED
    BY <2>2, <2>3
<1> QED
  BY <1>7, <1>8

-----------------------------------------------------------------------------
(* The normalizer: how the loops go through the places *)

\* The places up to q.
Scope(e, q) == {p \in Legible(e) : ~ Precedes(q, p)}

LEMMA ScopesGrow ==
  ASSUME NEW e \in Seq(Entry), NEW q \in Place, NEW r \in Place, ~ Precedes(r, q)
  PROVE  /\ Scope(e, r) \subseteq Place /\ Scope(e, q) \subseteq Scope(e, r)
         /\ \A s \in Scope(e, q), p \in Scope(e, r) \ Scope(e, q) : Precedes(s, p)
<1>1. Legible(e) \subseteq Place
  BY PlaceType
<1>2. \A p \in Place : ~ Precedes(q, p) => ~ Precedes(r, p)
  BY DEF Place, Precedes
<1>3. \A s, p \in Place : ~ Precedes(q, s) /\ Precedes(q, p) => Precedes(s, p)
  BY PrecedesIsTotal
<1> QED
  BY <1>1, <1>2, <1>3 DEF Scope

\* An item.
LEMMA ItemIsRead ==
  ASSUME NEW e \in Seq(Entry), NEW n \in 1 .. Len(e), e[n].legible,
         NEW m \in 1 .. Len(e[n].changes), e[n].changes[m].legible,
         NEW k \in 1 .. Len(e[n].changes[m].items), e[n].changes[m].items[k] \in Item,
         NEW acc \in Acc, Reads(e, Scope(e, <<n, m, k - 1>>), acc)
  PROVE  Reads(e, Scope(e, <<n, m, k>>), NormalizeItem(acc, e[n].changes[m].items[k]))
<1> DEFINE i == e[n].changes[m].items[k]
           new == NormalizeItem(acc, i)
           q == <<n, m, k - 1>>
           p == <<n, m, k>>
<1>1. n \in Nat /\ m \in Nat /\ k \in Nat \ {0} /\ k - 1 \in Nat
  BY LenProperties
<1>2. p \in Place /\ q \in Place /\ Precedes(q, p) /\ ~ Precedes(p, q)
  BY <1>1 DEF Place, Precedes
<1>3. ItemAt(e, p) = i
  BY DEF ItemAt
<1>4. Legible(e) \subseteq Place
  BY PlaceType
<1>5. \A r \in Place : ~ Precedes(p, r) <=> ~ Precedes(q, r) \/ r = p
  BY <1>1 DEF Place, Precedes
<1>6. p \in Legible(e) <=> i \notin Malformed
  BY <1>1, PlacesOf DEF LegibleAt
<1>7. Scope(e, p) = Scope(e, q) \cup {r \in {p} : i \notin Malformed}
  <2> HIDE DEF p, q, i
  <2> QED
    BY <1>2, <1>4, <1>5, <1>6 DEF Scope
<1>8. CASE acc.limitHit
  <2>1. new.updates = acc.updates /\ new.limitHit
    BY <1>8 DEF NormalizeItem, Beyond, Acc
  <2> QED
    BY <1>2, <1>8, <2>1, ScopesGrow, ReadsPastTheLimit
<1>9. CASE ~ acc.limitHit /\ i \in Malformed
  <2>1. new.updates = acc.updates /\ new.limitHit = acc.limitHit
    BY <1>9 DEF NormalizeItem, Skip, Acc
  <2>2. Scope(e, p) = Scope(e, q)
    BY <1>7, <1>9
  <2> QED
    BY <2>1, <2>2, ReadsTheSame
<1>10. CASE ~ acc.limitHit /\ i \notin Malformed
  <2>1. new = PushUpdate(acc, i)
    BY <1>10 DEF NormalizeItem
  <2>2. Scope(e, p) = Scope(e, q) \cup {p}
    BY <1>7, <1>10
  <2>3. p \notin Scope(e, q) /\ p \in Scope(e, p)
    BY <1>2, <2>2 DEF Scope
  <2>4. Scope(e, q) \subseteq Place /\ \A s \in Scope(e, q) : Precedes(s, p)
    <3> HIDE DEF p, q
    <3> QED
      BY <1>2, <2>3, ScopesGrow
  <2>5. Reads(e, Scope(e, q), acc)
    OBVIOUS
  <2>6. i \in Item \ Malformed /\ ~ acc.limitHit
    BY <1>10
  <2>7. Reads(e, Scope(e, p), new)
    <3> HIDE DEF p, q, new, i
    <3> QED
      BY <1>2, <1>3, <2>1, <2>2, <2>4, <2>5, <2>6, ReadsOneMore
  <2> QED
    BY <2>7
<1> QED
  BY <1>8, <1>9, <1>10

LEMMA NothingIsBetween ==
  ASSUME NEW e, NEW q, NEW r, \A p \in Legible(e) : Precedes(q, p) <=> Precedes(r, p)
  PROVE  Scope(e, q) = Scope(e, r)
BY DEF Scope

\* A change.
LEMMA ChangeIsRead ==
  ASSUME NEW e \in Seq(Entry), NEW n \in 1 .. Len(e), e[n].legible,
         NEW m \in 1 .. Len(e[n].changes), e[n].changes[m] \in Change,
         NEW acc \in Acc, Reads(e, Scope(e, <<n, m, 0>>), acc)
  PROVE  Reads(e, Scope(e, <<n, m + 1, 0>>), NormalizeChange(acc, e[n].changes[m]))
<1> DEFINE c == e[n].changes[m]
           new == NormalizeChange(acc, c)
           q == <<n, m, 0>>
           r == <<n, m + 1, 0>>
<1>1. n \in Nat /\ m \in Nat /\ m + 1 \in Nat /\ q \in Place /\ r \in Place /\ ~ Precedes(r, q)
  BY LenProperties DEF Place, Precedes
<1>2. CASE acc.limitHit
  <2>1. new.updates = acc.updates /\ new.limitHit
    BY <1>2 DEF NormalizeChange, Beyond, Acc
  <2> QED
    BY <1>1, <1>2, <2>1, ScopesGrow, ReadsPastTheLimit
<1>3. CASE ~ acc.limitHit /\ ~ c.legible
  <2>1. new.updates = acc.updates /\ new.limitHit = acc.limitHit
    BY <1>3 DEF NormalizeChange, Skip, Acc
  <2>2. ASSUME NEW p \in Legible(e) PROVE Precedes(q, p) <=> Precedes(r, p)
    <3>1. PICK x, y, z \in Nat \ {0} : p = <<x, y, z>> /\ LegibleAt(e, x, y, z)
      BY LegiblePlace
    <3>2. x = n => y # m
      BY <1>3, <3>1 DEF LegibleAt
    <3> QED
      BY <1>1, <3>1, <3>2 DEF Precedes
  <2> QED
    BY <2>1, <2>2, NothingIsBetween, ReadsTheSame
<1>4. CASE ~ acc.limitHit /\ c.legible
  <2>1. c.items \in Seq(Item) /\ Len(c.items) \in Nat
    BY LenProperties DEF Change
  <2>2. PICK after \in [0 .. Len(c.items) -> Acc] :
          /\ after[0] = acc /\ NormalizeItems(acc, c.items) = after[Len(c.items)]
          /\ \A k \in 1 .. Len(c.items) : after[k] = NormalizeItem(after[k - 1], c.items[k])
    BY <2>1, ItemLoop
  <2> DEFINE S == {k \in 0 .. Len(c.items) : Reads(e, Scope(e, <<n, m, k>>), after[k])}
  <2>3. 0 \in S
    BY <2>1, <2>2
  <2>4. ASSUME NEW k \in 1 .. Len(c.items), k - 1 \in S PROVE k \in S
    <3>1. c.items[k] \in Item /\ after[k - 1] \in Acc /\ k \in 0 .. Len(c.items)
      <4>1. k \in 0 .. Len(c.items) /\ k - 1 \in 0 .. Len(c.items)
        BY <2>1
      <4>2. c.items[k] \in Item
        <5> HIDE DEF c
        <5> QED
          BY <2>1, ElementOfSeq
      <4> QED
        BY <2>2, <4>1, <4>2
    <3>2. Reads(e, Scope(e, <<n, m, k - 1>>), after[k - 1])
      BY <2>4
    <3>3. Reads(e, Scope(e, <<n, m, k>>), NormalizeItem(after[k - 1], c.items[k]))
      BY <1>4, <3>1, <3>2, ItemIsRead
    <3> QED
      BY <2>2, <3>1, <3>3
  <2>5. Len(c.items) \in S
    <3> HIDE DEF S
    <3>1. 0 .. Len(c.items) \subseteq S
      BY <2>1, <2>3, <2>4, TurnByTurn
    <3> QED
      BY <2>1, <3>1
  <2>6. ASSUME NEW p \in Legible(e)
        PROVE  Precedes(<<n, m, Len(c.items)>>, p) <=> Precedes(r, p)
    <3>1. PICK x, y, z \in Nat \ {0} : p = <<x, y, z>> /\ LegibleAt(e, x, y, z)
      BY LegiblePlace
    <3>2. x = n /\ y = m => z <= Len(c.items)
      BY <2>1, <3>1 DEF LegibleAt
    <3>3. /\ p[1] = x /\ p[2] = y /\ p[3] = z
          /\ r[1] = n /\ r[2] = m + 1 /\ r[3] = 0
      BY <3>1
    <3> DEFINE l == Len(c.items)
    <3>4. l \in Nat /\ (x = n /\ y = m => z <= l)
      BY <2>1, <3>2
    <3>5. <<n, m, l>>[1] = n /\ <<n, m, l>>[2] = m /\ <<n, m, l>>[3] = l
      OBVIOUS
    <3> HIDE DEF l, r
    <3>6. Precedes(<<n, m, l>>, p) <=> Precedes(r, p)
      BY <1>1, <3>3, <3>4, <3>5 DEF Precedes
    <3> QED
      BY <3>6 DEF l
  <2>7. Scope(e, <<n, m, Len(c.items)>>) = Scope(e, r)
    BY <2>6, NothingIsBetween
  <2>8. new = after[Len(c.items)]
    BY <1>4, <2>2 DEF NormalizeChange
  <2> QED
    BY <2>5, <2>7, <2>8
<1> QED
  BY <1>2, <1>3, <1>4

\* An entry.
LEMMA EntryIsRead ==
  ASSUME NEW e \in Seq(Entry), NEW n \in 1 .. Len(e), e[n] \in Entry,
         NEW acc \in Acc, Reads(e, Scope(e, <<n, 1, 0>>), acc)
  PROVE  Reads(e, Scope(e, <<n + 1, 1, 0>>), NormalizeEntry(acc, e[n]))
<1> DEFINE new == NormalizeEntry(acc, e[n])
           changes == e[n].changes
           q == <<n, 1, 0>>
           r == <<n + 1, 1, 0>>
<1>1. n \in Nat /\ n + 1 \in Nat
  BY LenProperties
<1>2. CASE ~ e[n].legible
  <2>1. new.updates = acc.updates /\ new.limitHit = acc.limitHit
    BY <1>2 DEF NormalizeEntry, Skip, Acc
  <2>2. ASSUME NEW p \in Legible(e) PROVE Precedes(q, p) <=> Precedes(r, p)
    <3>1. PICK x, y, z \in Nat \ {0} : p = <<x, y, z>> /\ LegibleAt(e, x, y, z)
      BY LegiblePlace
    <3>2. x # n
      BY <1>2, <3>1 DEF LegibleAt
    <3> QED
      BY <1>1, <3>1, <3>2 DEF Precedes
  <2> QED
    BY <2>1, <2>2, NothingIsBetween, ReadsTheSame
<1>3. CASE e[n].legible
  <2>1. changes \in Seq(Change) /\ Len(changes) \in Nat
    BY LenProperties DEF Entry
  <2>2. PICK after \in [0 .. Len(changes) -> Acc] :
          /\ after[0] = acc /\ NormalizeChanges(acc, changes) = after[Len(changes)]
          /\ \A k \in 1 .. Len(changes) : after[k] = NormalizeChange(after[k - 1], changes[k])
    BY <2>1, ChangeLoop
  <2> DEFINE S == {m \in 0 .. Len(changes) : Reads(e, Scope(e, <<n, m + 1, 0>>), after[m])}
  <2>3. 0 \in S
    BY <2>1, <2>2
  <2>4. ASSUME NEW m \in 1 .. Len(changes), m - 1 \in S PROVE m \in S
    <3>1. changes[m] \in Change /\ after[m - 1] \in Acc /\ m \in 0 .. Len(changes)
      BY <2>1, <2>2, <2>4, ElementOfSeq
    <3>2. Reads(e, Scope(e, <<n, (m - 1) + 1, 0>>), after[m - 1]) /\ (m - 1) + 1 = m
      BY <2>1, <2>4
    <3>3. Reads(e, Scope(e, <<n, m + 1, 0>>), NormalizeChange(after[m - 1], changes[m]))
      BY <1>3, <3>1, <3>2, ChangeIsRead
    <3> QED
      BY <2>2, <3>1, <3>3
  <2>5. Len(changes) \in S
    <3> HIDE DEF S
    <3>1. 0 .. Len(changes) \subseteq S
      BY <2>1, <2>3, <2>4, TurnByTurn
    <3> QED
      BY <2>1, <3>1
  <2>6. ASSUME NEW p \in Legible(e)
        PROVE  Precedes(<<n, Len(changes) + 1, 0>>, p) <=> Precedes(r, p)
    <3>1. PICK x, y, z \in Nat \ {0} : p = <<x, y, z>> /\ LegibleAt(e, x, y, z)
      BY LegiblePlace
    <3>2. x = n => y <= Len(changes)
      BY <2>1, <3>1 DEF LegibleAt
    <3> QED
      BY <1>1, <2>1, <3>1, <3>2 DEF Precedes
  <2>7. Scope(e, <<n, Len(changes) + 1, 0>>) = Scope(e, r)
    BY <2>6, NothingIsBetween
  <2>8. new = after[Len(changes)]
    BY <1>3, <2>2 DEF NormalizeEntry
  <2> QED
    BY <2>5, <2>7, <2>8
<1> QED
  BY <1>2, <1>3

\* An envelope.
LEMMA EnvelopeIsRead ==
  ASSUME NEW e \in Seq(Entry)
  PROVE  Normalize(e) \in Acc /\ Reads(e, Legible(e), Normalize(e))
<1>1. Len(e) \in Nat
  BY LenProperties
<1>2. PICK after \in [0 .. Len(e) -> Acc] :
        /\ after[0] = Nothing /\ Normalize(e) = after[Len(e)]
        /\ \A k \in 1 .. Len(e) : after[k] = NormalizeEntry(after[k - 1], e[k])
  BY EntryLoop
<1> DEFINE S == {n \in 0 .. Len(e) : Reads(e, Scope(e, <<n + 1, 1, 0>>), after[n])}
<1>3. 0 \in S
  <2>1. ASSUME NEW p \in Legible(e) PROVE Precedes(<<1, 1, 0>>, p)
    <3>1. PICK x, y, z \in Nat \ {0} : p = <<x, y, z>> /\ LegibleAt(e, x, y, z)
      BY LegiblePlace
    <3> QED
      BY <3>1 DEF Precedes
  <2>2. Scope(e, <<0 + 1, 1, 0>>) = {}
    BY <2>1 DEF Scope
  <2>3. ReadsAt(e, {}, Nothing, <<>>)
    <3>1. Firsts(e, {}) = {} /\ MaxEvents \in Nat
      BY NormalizerAssumption DEF Firsts
    <3>2. Nothing.updates = <<>> /\ ~ Nothing.limitHit /\ Len(<<>>) = 0 /\ DOMAIN <<>> = {}
      BY DEF Nothing
    <3>3. <<>> \in [DOMAIN <<>> -> {}]
      BY <3>2
    <3> QED
      BY <3>1, <3>2, <3>3 DEF ReadsAt
  <2>4. Reads(e, {}, Nothing)
    BY <2>3, ReadingIsAt DEF Reads
  <2>5. Reads(e, Scope(e, <<0 + 1, 1, 0>>), after[0])
    BY <1>2, <2>2, <2>4, Zenon
  <2>6. 0 \in 0 .. Len(e)
    BY <1>1
  <2> QED
    BY <2>5, <2>6, Zenon
<1>4. ASSUME NEW n \in 1 .. Len(e), n - 1 \in S PROVE n \in S
  <2>1. e[n] \in Entry /\ after[n - 1] \in Acc /\ n \in 0 .. Len(e)
    BY <1>1, <1>2, <1>4, ElementOfSeq
  <2>2. Reads(e, Scope(e, <<(n - 1) + 1, 1, 0>>), after[n - 1]) /\ (n - 1) + 1 = n
    BY <1>1, <1>4
  <2>3. Reads(e, Scope(e, <<n + 1, 1, 0>>), NormalizeEntry(after[n - 1], e[n]))
    BY <2>1, <2>2, EntryIsRead
  <2> QED
    BY <1>2, <2>1, <2>3
<1>5. Len(e) \in S
  <2> HIDE DEF S
  <2>1. 0 .. Len(e) \subseteq S
    BY <1>1, <1>3, <1>4, TurnByTurn
  <2> QED
    BY <1>1, <2>1
<1>6. ASSUME NEW p \in Legible(e) PROVE ~ Precedes(<<Len(e) + 1, 1, 0>>, p)
  <2>1. PICK x, y, z \in Nat \ {0} : p = <<x, y, z>> /\ LegibleAt(e, x, y, z)
    BY LegiblePlace
  <2>2. x <= Len(e)
    BY <1>1, <2>1 DEF LegibleAt
  <2> QED
    BY <1>1, <2>1, <2>2 DEF Precedes
<1>7. Scope(e, <<Len(e) + 1, 1, 0>>) = Legible(e)
  BY <1>6 DEF Scope
<1> QED
  BY <1>1, <1>2, <1>5, <1>7

\* The updates made of an envelope are its legible items, of several with the same kind and
\* id the first, in their order and as far as the limit reaches; the result says whether it
\* reaches all of them (normalizeWebhookEnvelope).
THEOREM NormalizerIsRight ==
  \A e \in Seq(Entry) :
    /\ Normalize(e).updates \in Seq(Item \ Malformed)
    /\ IsReading(e, Legible(e), Normalize(e).updates, Normalize(e).limitHit)
BY EnvelopeIsRead DEF Acc, Reads

-----------------------------------------------------------------------------
(* Lists *)

\* No keyed update is in a list twice.
Distinct(s) == \A i, j \in 1 .. Len(s) : s[i] = s[j] /\ s[i] \in Keyed => i = j

LEMMA RangeOfAppend ==
  ASSUME NEW S, NEW s \in Seq(S), NEW x \in S
  PROVE  Range(Append(s, x)) = Range(s) \cup {x}
<1>1. /\ Append(s, x) \in Seq(S) /\ Len(Append(s, x)) = Len(s) + 1
      /\ \A i \in 1 .. Len(s) : Append(s, x)[i] = s[i]
      /\ Append(s, x)[Len(s) + 1] = x
  BY AppendProperties
<1>2. /\ Range(Append(s, x)) = {Append(s, x)[i] : i \in 1 .. (Len(s) + 1)}
      /\ Range(s) = {s[i] : i \in 1 .. Len(s)}
      /\ Len(s) \in Nat
  BY <1>1, RangeEquality, LenProperties
<1> QED
  BY <1>1, <1>2

LEMMA RangeOfTail ==
  ASSUME NEW S, NEW s \in Seq(S), s # <<>>
  PROVE  /\ Head(s) \in S /\ Tail(s) \in Seq(S)
         /\ Range(s) = {Head(s)} \cup Range(Tail(s))
<1>1. /\ Head(s) \in S /\ Tail(s) \in Seq(S) /\ Head(s) = s[1]
      /\ Len(s) \in Nat \ {0} /\ Len(Tail(s)) = Len(s) - 1
      /\ \A i \in 1 .. Len(Tail(s)) : Tail(s)[i] = s[i + 1]
  BY HeadTailProperties, LenProperties
<1>2. /\ Range(s) = {s[i] : i \in 1 .. Len(s)}
      /\ Range(Tail(s)) = {Tail(s)[i] : i \in 1 .. Len(Tail(s))}
  BY <1>1, RangeEquality
<1>3. \A i \in 1 .. Len(s) : i = 1 \/ (i - 1 \in 1 .. Len(Tail(s)) /\ s[i] = Tail(s)[i - 1])
  BY <1>1
<1>4. \A i \in 1 .. Len(Tail(s)) : i + 1 \in 1 .. Len(s) /\ s[i + 1] = Tail(s)[i]
  BY <1>1
<1>5. 1 \in 1 .. Len(s)
  BY <1>1
<1>6. \A x \in Range(s) : x = Head(s) \/ x \in Range(Tail(s))
  <2> TAKE x \in Range(s)
  <2>1. PICK i \in 1 .. Len(s) : x = s[i]
    BY <1>2
  <2> QED
    BY <2>1, <1>1, <1>2, <1>3
<1>7. Head(s) \in Range(s) /\ \A x \in Range(Tail(s)) : x \in Range(s)
  BY <1>1, <1>2, <1>4, <1>5
<1> QED
  BY <1>1, <1>6, <1>7

LEMMA EmptyRange == Range(<<>>) = {} /\ Distinct(<<>>)
BY DEF Range, Distinct

LEMMA DistinctAppend ==
  ASSUME NEW S, NEW s \in Seq(S), NEW x \in S, Distinct(s), x \notin Keyed \/ x \notin Range(s)
  PROVE  Distinct(Append(s, x))
<1>1. /\ Len(Append(s, x)) = Len(s) + 1 /\ Len(s) \in Nat
      /\ \A i \in 1 .. Len(s) : Append(s, x)[i] = s[i]
      /\ Append(s, x)[Len(s) + 1] = x
  BY AppendProperties, LenProperties
<1>2. \A i \in 1 .. Len(s) : s[i] \in Range(s)
  BY RangeEquality
<1> QED
  BY <1>1, <1>2 DEF Distinct

LEMMA DistinctTail ==
  ASSUME NEW S, NEW s \in Seq(S), s # <<>>, Distinct(s)
  PROVE  /\ Distinct(Tail(s))
         /\ Head(s) \in Keyed => Head(s) \notin Range(Tail(s))
<1>1. /\ Tail(s) \in Seq(S) /\ Head(s) = s[1]
      /\ Len(s) \in Nat \ {0} /\ Len(Tail(s)) = Len(s) - 1
      /\ \A i \in 1 .. Len(Tail(s)) : Tail(s)[i] = s[i + 1]
  BY HeadTailProperties, LenProperties
<1>2. Range(Tail(s)) = {Tail(s)[i] : i \in 1 .. Len(Tail(s))}
  BY <1>1, RangeEquality
<1> QED
  BY <1>1, <1>2 DEF Distinct

-----------------------------------------------------------------------------
(* Type correctness *)

LEMMA MinIsLeast ==
  ASSUME NEW S, \E x \in S : \A y \in S : x <= y
  PROVE  Min(S) \in S /\ \A y \in S : Min(S) <= y
BY DEF Min

LEMMA MinOfTwo ==
  ASSUME NEW a \in Int, NEW b \in Int
  PROVE  Min({a, b}) \in {a, b}
<1>1. \E x \in {a, b} : \A y \in {a, b} : x <= y
  BY SMT
<1> QED
  BY <1>1, MinIsLeast

LEMMA ProjectsType ==
  ASSUME TypeOK, NEW u \in Projected, NEW d \in Delivery
  PROVE  Projects(u, receipt[d]) \in SUBSET Int
<1>1. Sent[u] \in Int
  <2>1. Sent \in [Projected -> Int]
    BY WebhookAssumption DEF Projected
  <2> QED
    BY <2>1
<1>2. receipt[d] \in Int
  <2>1. receipt[d] \in Clock \cup {None}
    BY DEF TypeOK
  <2>2. Clock \cup {None} \subseteq Int
    BY WebhookAssumption DEF None
  <2> QED
    BY <2>1, <2>2
<1>3. stored[u] \in SUBSET Int
  BY DEF TypeOK
<1>4. EventTimes(Sent[u], receipt[d]) \in SUBSET Int
  BY <1>1, <1>2, MinOfTwo DEF EventTimes
<1> QED
  BY <1>2, <1>3, <1>4 DEF Projects

LEMMA TakesType ==
  ASSUME TypeOK, NEW d \in Delivery, NEW s, NEW u, Takes(d, s, u)
  PROVE  /\ u \in Update
         /\ left' \in [Delivery -> Seq(Update)]
         /\ left[d] \in Seq(Update) /\ left[d] # <<>> /\ u = Head(left[d])
         /\ left'[d] = Tail(left[d]) /\ \A e \in Delivery \ {d} : left'[e] = left[e]
<1>1. left[d] \in Seq(Update) /\ left[d] # <<>>
  BY DEF TypeOK, Takes
<1>2. Head(left[d]) \in Update /\ Tail(left[d]) \in Seq(Update)
  BY <1>1, RangeOfTail
<1> QED
  BY <1>1, <1>2 DEF TypeOK, Takes

LEMMA TypeInit == Init => TypeOK
BY WebhookAssumption DEF Init, TypeOK, Stage, Answer, None

LEMMA TypePost ==
  ASSUME TypeOK, NEW d \in Delivery, NEW e \in Envelopes, Post(d, e) PROVE TypeOK'
<1>1. Normalize(e).updates \in Seq(Update)
  BY NormalizerIsRight, WebhookAssumption
<1>2. answer' \in [Delivery -> Answer]
  <2>1. AnswerTo(request[d], Normalize(e).updates) # "accepted" =>
          AnswerTo(request[d], Normalize(e).updates) \in Answer
    BY DEF AnswerTo, Verdict, Answer, Refusal, Refused
  <2> QED
    BY <2>1 DEF Post, TypeOK
<1> QED
  BY <1>1, <1>2 DEF Post, TypeOK, Stage, storeVars, lists

LEMMA TypePostAgain ==
  ASSUME TypeOK, NEW d \in Delivery, PostAgain(d) PROVE TypeOK'
BY DEF PostAgain, TypeOK, Stage, Answer, storeVars, posted

LEMMA TypeRecord ==
  ASSUME TypeOK, NEW d \in Delivery, NEW u \in Update, Record(d, u) PROVE TypeOK'
<1>1. u \in recorded => u \in Keyed
  BY DEF TypeOK
<1>2. toDispatch' \in [Delivery -> Seq(Update)] /\ deduped' \in [Delivery -> Seq(Keyed)]
  <2>1. Append(toDispatch[d], u) \in Seq(Update)
    BY AppendProperties DEF TypeOK
  <2>2. u \in recorded => Append(deduped[d], u) \in Seq(Keyed)
    BY <1>1, AppendProperties DEF TypeOK
  <2> QED
    BY <2>1, <2>2 DEF Record, TypeOK
<1> QED
  BY <1>2, TakesType DEF Record, Takes, TypeOK, Stage, posted

LEMMA TypeThrows ==
  ASSUME TypeOK, NEW d \in Delivery, NEW u \in Update, NEW commits \in BOOLEAN,
         RecordThrows(d, u, commits)
  PROVE  TypeOK'
BY DEF RecordThrows, Setback, TypeOK, Stage, posted, lists

LEMMA TypeProject ==
  ASSUME TypeOK, NEW d \in Delivery, NEW u \in Update,
         Project(d, u) \/ \E commits \in BOOLEAN : ProjectThrows(d, u, commits)
  PROVE  TypeOK'
<1>1. Takes(d, "projecting", u)
  BY DEF Project, ProjectThrows
<1>2. \/ UNCHANGED stored
      \/ u \in Projected /\ stored' = [stored EXCEPT ![u] = Projects(u, receipt[d])]
  BY DEF Project, ProjectThrows
<1>3. \/ UNCHANGED missed
      \/ u \in Projected /\ missed' = [missed EXCEPT ![d] = @ \cup {u}]
  BY DEF Project, ProjectThrows, TypeOK
<1>5. stored' \in [Projected -> SUBSET Int]
  <2>1. stored \in [Projected -> SUBSET Int]
    BY DEF TypeOK
  <2> QED
    BY <2>1, <1>2, ProjectsType
<1>6. missed' \in [Delivery -> SUBSET Projected]
  <2>1. missed \in [Delivery -> SUBSET Projected]
    BY DEF TypeOK
  <2>2. u \in Projected => missed[d] \cup {u} \in SUBSET Projected
    BY <2>1
  <2> QED
    BY <2>1, <2>2, <1>3
<1>7. setbacks' \in Nat
  BY DEF Project, ProjectThrows, Setback, TypeOK
<1>4. /\ UNCHANGED <<recorded, dispatched, toDispatch, deduped, dedupFailed, receipt, lost>>
      /\ UNCHANGED <<stage, request, envelope, body, answer>>
  BY DEF Project, ProjectThrows, Takes, posted, lists
<1> QED
  BY <1>1, <1>4, <1>5, <1>6, <1>7, TakesType DEF TypeOK

LEMMA TypeTurns ==
  ASSUME TypeOK, NEW d \in Delivery, AllRecorded(d) \/ AllProjected(d) PROVE TypeOK'
<1>1. deduped[d] \in Seq(Update) /\ toDispatch[d] \in Seq(Update)
  <2>1. toDispatch[d] \in Seq(Update) /\ deduped[d] \in Seq(Keyed)
    BY DEF TypeOK
  <2> QED
    BY <2>1, SeqMonotonic DEF Keyed
<1>2. toDispatch[d] \o deduped[d] \in Seq(Update)
  BY <1>1, ConcatProperties
<1>3. receipt' \in [Delivery -> Clock \cup {None}]
  BY DEF AllRecorded, AllProjected, ReadsClock, TypeOK
<1>4. /\ left' \in [Delivery -> Seq(Update)] /\ stage' \in [Delivery -> Stage]
  BY <1>1, <1>2 DEF AllRecorded, AllProjected, Turns, TypeOK, Stage
<1> QED
  BY <1>3, <1>4 DEF AllRecorded, AllProjected, Turns, TypeOK, storeVars, posted, lists

LEMMA TypeDispatch ==
  ASSUME TypeOK, NEW d \in Delivery, NEW u \in Update, Dispatch(d, u) PROVE TypeOK'
<1>1. dispatched' \in [Update -> Nat]
  BY DEF Dispatch, TypeOK
<1> QED
  BY <1>1, TakesType DEF Dispatch, Takes, TypeOK, storeVars, posted, lists

LEMMA TypeRespond ==
  ASSUME TypeOK, NEW d \in Delivery, Respond(d) PROVE TypeOK'
BY DEF Respond, TypeOK, Stage, Answer, storeVars, posted, lists

LEMMA HandsAreKeyed ==
  ASSUME TypeOK, NEW d \in Delivery PROVE InHand(d) \subseteq Keyed
BY DEF InHand

LEMMA TypeCrash ==
  ASSUME TypeOK, NEW S \in SUBSET InFlight, Crash(S) PROVE TypeOK'
<1>1. lost' \in SUBSET Keyed
  BY HandsAreKeyed DEF Crash, TypeOK, InFlight
<1> QED
  BY <1>1 DEF Crash, Setback, TypeOK, Stage, Answer, None, storeVars, posted, lists

LEMMA TypeStep == TypeOK /\ [Next]_vars => TypeOK'
<1> SUFFICES ASSUME TypeOK, [Next]_vars PROVE TypeOK'
  OBVIOUS
<1>1. ASSUME NEW d \in Delivery, Step(d) PROVE TypeOK'
  BY <1>1, TypeRecord, TypeThrows, TypeProject, TypeTurns, TypeDispatch, TypeRespond DEF Step
<1>2. CASE UNCHANGED vars
  BY <1>2 DEF vars, storeVars, posted, lists, TypeOK
<1> QED
  BY <1>1, <1>2, TypePost, TypePostAgain, TypeCrash DEF Next, Terminated

\* The variables keep their types: in particular, nothing without a key is recorded, found
\* to be a duplicate, or counted as lost.
THEOREM TypeCorrect == Spec => []TypeOK
BY TypeInit, TypeStep, PTL DEF Spec

-----------------------------------------------------------------------------
(* What a delivery has in hand *)

Hand(d) ==
  IF stage[d] \in {"recording", "projecting"} THEN toDispatch[d]
  ELSE IF stage[d] = "dispatching" THEN left[d] ELSE <<>>

StageInv ==
  \A d \in Delivery :
    /\ answer[d] # "none" => stage[d] = "done"
    /\ stage[d] = "new" => toDispatch[d] = <<>>

LEMMA HandType ==
  ASSUME TypeOK, NEW d \in Delivery
  PROVE  /\ Hand(d) \in Seq(Update)
         /\ Range(Hand(d)) \subseteq Update
         /\ InHand(d) = Range(Hand(d)) \cap Keyed
<1>1. Hand(d) \in Seq(Update)
  BY DEF Hand, TypeOK
<1> QED
  BY <1>1, RangeOfSeq, EmptyRange DEF Hand, InHand

LEMMA StageInit == Init => StageInv
BY DEF Init, StageInv

LEMMA StageStep == TypeOK /\ StageInv /\ [Next]_vars => StageInv'
<1> SUFFICES ASSUME TypeOK, StageInv, [Next]_vars PROVE StageInv'
  OBVIOUS
<1>1. ASSUME NEW d \in Delivery, NEW e \in Envelopes, Post(d, e) PROVE StageInv'
  BY <1>1 DEF Post, lists, StageInv, TypeOK
<1>2. ASSUME NEW d \in Delivery, PostAgain(d) PROVE StageInv'
  BY <1>2 DEF PostAgain, StageInv, TypeOK
<1>3. ASSUME NEW d \in Delivery, NEW u \in Update, Record(d, u) PROVE StageInv'
  BY <1>3 DEF Record, Takes, StageInv, TypeOK
<1>4. ASSUME NEW d \in Delivery, NEW u \in Update, NEW commits \in BOOLEAN,
             RecordThrows(d, u, commits)
      PROVE  StageInv'
  BY <1>4 DEF RecordThrows, lists, StageInv
<1>5. ASSUME NEW d \in Delivery, NEW u \in Update,
             Project(d, u) \/ (\E commits \in BOOLEAN : ProjectThrows(d, u, commits)) \/ Dispatch(d, u)
      PROVE  StageInv'
  BY <1>5 DEF Project, ProjectThrows, Dispatch, Takes, lists, StageInv
<1>6. ASSUME NEW d \in Delivery, AllRecorded(d) \/ AllProjected(d) PROVE StageInv'
  BY <1>6 DEF AllRecorded, AllProjected, Turns, lists, StageInv, TypeOK
<1>7. ASSUME NEW d \in Delivery, Respond(d) PROVE StageInv'
  BY <1>7 DEF Respond, lists, StageInv, TypeOK
<1>8. ASSUME NEW S \in SUBSET InFlight, Crash(S) PROVE StageInv'
  BY <1>8 DEF Crash, lists, StageInv, TypeOK
<1>9. CASE UNCHANGED vars
  BY <1>9 DEF vars, lists, StageInv
<1> QED
  BY <1>1, <1>2, <1>3, <1>4, <1>5, <1>6, <1>7, <1>8, <1>9 DEF Next, Step, Terminated

\* What a step does to the updates that have been recorded, in the five ways there are.
OthersKeepHands(S) == \A d \in Delivery \ S : Hand(d)' = Hand(d)

Keeps == UNCHANGED <<recorded, dispatched, lost>> /\ OthersKeepHands({})

Grabs(d, u) ==
  /\ u \in Update \ recorded
  /\ Hand(d)' = Append(Hand(d), u)
  /\ recorded' = recorded \cup ({u} \cap Keyed)
  /\ UNCHANGED <<dispatched, lost>> /\ OthersKeepHands({d})

Forgets(u) ==
  /\ u \in Keyed \ recorded
  /\ recorded' = recorded \cup {u} /\ lost' = lost \cup {u}
  /\ UNCHANGED dispatched /\ OthersKeepHands({})

Releases(d, u) ==
  /\ Hand(d) # <<>> /\ u = Head(Hand(d)) /\ Hand(d)' = Tail(Hand(d))
  /\ dispatched' = [dispatched EXCEPT ![u] = @ + 1]
  /\ UNCHANGED <<recorded, lost>> /\ OthersKeepHands({d})

Drops(S) ==
  /\ \A d \in S : Hand(d)' = <<>>
  /\ lost' = lost \cup UNION {InHand(d) : d \in S}
  /\ UNCHANGED <<recorded, dispatched>> /\ OthersKeepHands(S)

HandStep ==
  \/ Keeps
  \/ \E d \in Delivery, u \in Update : Grabs(d, u) \/ Releases(d, u)
  \/ \E u \in Update : Forgets(u)
  \/ \E S \in SUBSET Delivery : Drops(S)

LEMMA EveryStepIsAHandStep ==
  ASSUME TypeOK, StageInv, [Next]_vars
  PROVE  HandStep
<1>1. ASSUME NEW d \in Delivery, NEW e \in Envelopes, Post(d, e) PROVE Keeps
  BY <1>1 DEF Post, storeVars, lists, StageInv, TypeOK, Keeps, OthersKeepHands, Hand
<1>2. ASSUME NEW d \in Delivery, PostAgain(d) PROVE Keeps
  <2>1. stage[d] = "done" /\ Hand(d) = <<>>
    BY <1>2 DEF PostAgain, StageInv, Hand
  <2>2. stage'[d] = "recording" /\ toDispatch'[d] = <<>>
    BY <1>2 DEF PostAgain, TypeOK
  <2> QED
    BY <1>2, <2>1, <2>2 DEF PostAgain, storeVars, TypeOK, Keeps, OthersKeepHands, Hand
<1>3. ASSUME NEW d \in Delivery, NEW u \in Update, Record(d, u), u \notin recorded PROVE Grabs(d, u)
  BY <1>3 DEF Record, Takes, TypeOK, Grabs, OthersKeepHands, Hand
<1>4. ASSUME NEW d \in Delivery, NEW u \in Update, Record(d, u), u \in recorded PROVE Keeps
  BY <1>4 DEF Record, Takes, TypeOK, Keeps, OthersKeepHands, Hand
<1>5. ASSUME NEW d \in Delivery, NEW u \in Update, NEW commits \in BOOLEAN,
             RecordThrows(d, u, commits)
      PROVE  Keeps \/ Forgets(u)
  <2>1. OthersKeepHands({})
    BY <1>5 DEF RecordThrows, lists, TypeOK, OthersKeepHands, Hand
  <2> QED
    BY <1>5, <2>1 DEF RecordThrows, Keeps, Forgets
<1>6. ASSUME NEW d \in Delivery, NEW u \in Update,
             Project(d, u) \/ \E commits \in BOOLEAN : ProjectThrows(d, u, commits)
      PROVE  Keeps
  BY <1>6 DEF Project, ProjectThrows, Takes, lists, TypeOK, Keeps, OthersKeepHands, Hand
<1>7. ASSUME NEW d \in Delivery, NEW u \in Update, Dispatch(d, u) PROVE Releases(d, u)
  BY <1>7 DEF Dispatch, Takes, storeVars, lists, TypeOK, Releases, OthersKeepHands, Hand
<1>8. ASSUME NEW d \in Delivery, AllRecorded(d) \/ AllProjected(d) \/ Respond(d) PROVE Keeps
  BY <1>8 DEF AllRecorded, AllProjected, Respond, Turns, storeVars, lists, TypeOK, Keeps,
     OthersKeepHands, Hand
<1>9. ASSUME NEW S \in SUBSET InFlight, Crash(S) PROVE S \in SUBSET Delivery /\ Drops(S)
  BY <1>9 DEF Crash, InFlight, storeVars, lists, TypeOK, Drops, OthersKeepHands, Hand
<1>10. CASE UNCHANGED vars
  BY <1>10 DEF vars, storeVars, lists, Keeps, OthersKeepHands, Hand, HandStep
<1> QED
  BY <1>1, <1>2, <1>3, <1>4, <1>5, <1>6, <1>7, <1>8, <1>9, <1>10
     DEF Next, Step, Terminated, HandStep

-----------------------------------------------------------------------------
(* At most once *)

\* An update in hand is in one hand only, once, and nobody has been given it.
HandInv ==
  /\ \A d \in Delivery : Distinct(Hand(d))
  /\ \A d, e \in Delivery : d # e => InHand(d) \cap InHand(e) = {}
  /\ \A d \in Delivery : \A u \in InHand(d) : u \in recorded /\ dispatched[u] = 0 /\ u \notin lost

\* What was given to the handlers was recorded, and not lost.
FateInv ==
  /\ \A u \in Keyed : dispatched[u] \in {0, 1}
  /\ \A u \in Keyed : dispatched[u] > 0 => u \in recorded /\ u \notin lost
  /\ lost \subseteq recorded

\* What was recorded is in somebody's hand, or has met its fate.
AccountInv ==
  \A u \in recorded : dispatched[u] > 0 \/ u \in lost \/ \E d \in Delivery : u \in InHand(d)

IInv == TypeOK /\ StageInv /\ HandInv /\ FateInv /\ AccountInv

LEMMA HandsNext ==
  ASSUME NEW d \in Delivery
  PROVE  /\ InHand(d) = Range(Hand(d)) \cap Keyed
         /\ InHand(d)' = Range(Hand(d)') \cap Keyed
         /\ Hand(d)' = Hand(d) => InHand(d)' = InHand(d)
         /\ Hand(d)' = <<>> => InHand(d)' = {}
<1>1. InHand(d) = Range(Hand(d)) \cap Keyed
  BY EmptyRange DEF Hand, InHand
<1>2. InHand(d)' = Range(Hand(d)') \cap Keyed
  BY EmptyRange DEF Hand, InHand
<1>3. ASSUME Hand(d)' = Hand(d) PROVE InHand(d)' = InHand(d)
  <2>1. Range(Hand(d)') = Range(Hand(d))
    BY <1>3
  <2> QED
    BY <1>1, <1>2, <2>1
<1>4. ASSUME Hand(d)' = <<>> PROVE InHand(d)' = {}
  <2>1. Range(Hand(d)') = {}
    BY <1>4, EmptyRange
  <2> QED
    BY <1>2, <2>1
<1> QED
  BY <1>1, <1>2, <1>3, <1>4

LEMMA GrabbedHand ==
  ASSUME TypeOK, HandInv, NEW d \in Delivery, NEW u \in Update, Grabs(d, u)
  PROVE  Distinct(Hand(d)') /\ InHand(d)' = InHand(d) \cup ({u} \cap Keyed)
<1>1. Hand(d) \in Seq(Update) /\ Hand(d)' = Append(Hand(d), u)
  BY HandType DEF Grabs
<1>2. u \notin Keyed \/ u \notin Range(Hand(d))
  BY HandsNext DEF HandInv, Grabs
<1>3. Distinct(Hand(d))
  BY DEF HandInv
<1>4. Range(Hand(d)') = Range(Hand(d)) \cup {u}
  BY <1>1, RangeOfAppend
<1>5. Distinct(Append(Hand(d), u))
  BY <1>1, <1>2, <1>3, DistinctAppend
<1>6. Distinct(Hand(d)')
  BY <1>1, <1>5
<1> QED
  BY <1>4, <1>6, HandsNext

LEMMA ReleasedHand ==
  ASSUME TypeOK, HandInv, NEW d \in Delivery, NEW u \in Update, Releases(d, u)
  PROVE  /\ Distinct(Hand(d)')
         /\ InHand(d)' = InHand(d) \ {u}
         /\ u \in Keyed => u \in InHand(d)
<1>1. /\ Hand(d) \in Seq(Update) /\ Hand(d) # <<>>
      /\ u = Head(Hand(d)) /\ Hand(d)' = Tail(Hand(d))
  BY HandType DEF Releases
<1>2. Distinct(Hand(d))
  BY DEF HandInv
<1>3. Range(Hand(d)) = {u} \cup Range(Hand(d)')
  BY <1>1, RangeOfTail
<1>4. Distinct(Hand(d)') /\ (u \in Keyed => u \notin Range(Hand(d)'))
  BY <1>1, <1>2, DistinctTail
<1> QED
  BY <1>3, <1>4, HandsNext

LEMMA HandsInit == Init => HandInv /\ FateInv /\ AccountInv
<1> SUFFICES ASSUME Init PROVE HandInv /\ FateInv /\ AccountInv
  OBVIOUS
<1>1. \A d \in Delivery : Hand(d) = <<>> /\ InHand(d) = {}
  BY DEF Init, Hand, InHand
<1> QED
  BY <1>1, EmptyRange DEF Init, HandInv, FateInv, AccountInv, Keyed

LEMMA HandsKeep ==
  ASSUME TypeOK, HandInv, FateInv, AccountInv, Keeps
  PROVE  HandInv' /\ FateInv' /\ AccountInv'
<1>1. \A d \in Delivery : Hand(d)' = Hand(d) /\ InHand(d)' = InHand(d)
  BY HandsNext DEF Keeps, OthersKeepHands
<1>2. \A d \in Delivery : Distinct(Hand(d)')
  BY <1>1 DEF HandInv
<1> QED
  BY <1>1, <1>2 DEF Keeps, HandInv, FateInv, AccountInv, Distinct

LEMMA HandsGrab ==
  ASSUME TypeOK, HandInv, FateInv, AccountInv,
         NEW d \in Delivery, NEW u \in Update, Grabs(d, u)
  PROVE  HandInv' /\ FateInv' /\ AccountInv'
<1>1. /\ InHand(d)' = InHand(d) \cup ({u} \cap Keyed)
      /\ \A e \in Delivery \ {d} : InHand(e)' = InHand(e) /\ Hand(e)' = Hand(e)
  BY GrabbedHand, HandsNext DEF Grabs, OthersKeepHands
<1>2. \A e \in Delivery : Distinct(Hand(e)')
  BY <1>1, GrabbedHand DEF HandInv
<1>3. \A e \in Delivery : u \notin InHand(e)
  BY DEF HandInv, Grabs
<1>4. u \in Keyed => dispatched[u] = 0 /\ u \notin lost
  BY DEF FateInv, Grabs
<1>5. HandInv'
  BY <1>1, <1>2, <1>3, <1>4 DEF HandInv, Grabs, Distinct
<1>6. FateInv'
  BY DEF FateInv, Grabs
<1>7. AccountInv'
  BY <1>1 DEF AccountInv, Grabs
<1> QED
  BY <1>5, <1>6, <1>7

LEMMA HandsForget ==
  ASSUME TypeOK, HandInv, FateInv, AccountInv, NEW u \in Update, Forgets(u)
  PROVE  HandInv' /\ FateInv' /\ AccountInv'
<1>1. \A d \in Delivery : Hand(d)' = Hand(d) /\ InHand(d)' = InHand(d)
  BY HandsNext DEF Forgets, OthersKeepHands
<1>2. \A d \in Delivery : Distinct(Hand(d)')
  BY <1>1 DEF HandInv
<1>3. HandInv'
  BY <1>1, <1>2 DEF Forgets, HandInv, Distinct
<1>4. FateInv' /\ AccountInv'
  BY <1>1 DEF Forgets, FateInv, AccountInv
<1> QED
  BY <1>3, <1>4

LEMMA HandsRelease ==
  ASSUME TypeOK, HandInv, FateInv, AccountInv,
         NEW d \in Delivery, NEW u \in Update, Releases(d, u)
  PROVE  HandInv' /\ FateInv' /\ AccountInv'
<1>1. /\ InHand(d)' = InHand(d) \ {u}
      /\ u \in Keyed => u \in InHand(d)
      /\ \A e \in Delivery \ {d} : InHand(e)' = InHand(e) /\ Hand(e)' = Hand(e)
  BY ReleasedHand, HandsNext DEF Releases, OthersKeepHands
<1>2. \A e \in Delivery : Distinct(Hand(e)')
  BY <1>1, ReleasedHand DEF HandInv
<1>3. \A e \in Delivery : u \notin InHand(e)'
  BY <1>1, HandType DEF HandInv
<1>4. /\ UNCHANGED <<recorded, lost>>
      /\ dispatched'[u] = dispatched[u] + 1 /\ dispatched[u] \in Nat
      /\ \A v \in Update \ {u} : dispatched'[v] = dispatched[v]
  BY DEF Releases, TypeOK
<1>5. HandInv'
  <2>1. \A e \in Delivery : InHand(e)' \subseteq InHand(e) /\ InHand(e) \subseteq Update
    BY <1>1, HandType
  <2>2. \A e \in Delivery : \A v \in InHand(e)' : v # u /\ v \in Update /\ v \in InHand(e)
    BY <1>3, <2>1
  <2> QED
    BY <1>2, <1>4, <2>1, <2>2 DEF HandInv, Distinct
<1>6. FateInv'
  <2>1. u \in Keyed => dispatched[u] = 0 /\ u \in recorded /\ u \notin lost
    BY <1>1 DEF HandInv
  <2> QED
    BY <1>4, <2>1 DEF FateInv, Keyed
<1>7. AccountInv'
  <2> SUFFICES ASSUME NEW v \in recorded
               PROVE  dispatched'[v] > 0 \/ v \in lost \/ \E e \in Delivery : v \in InHand(e)'
    BY <1>4 DEF AccountInv
  <2>1. v \in Update
    BY DEF TypeOK, Keyed
  <2>2. CASE v = u
    BY <2>2, <1>4
  <2>3. CASE v # u
    BY <2>1, <2>3, <1>1, <1>4 DEF AccountInv
  <2> QED
    BY <2>2, <2>3
<1> QED
  BY <1>5, <1>6, <1>7

LEMMA HandsDrop ==
  ASSUME TypeOK, HandInv, FateInv, AccountInv, NEW S \in SUBSET Delivery, Drops(S)
  PROVE  HandInv' /\ FateInv' /\ AccountInv'
<1>1. /\ \A d \in S : InHand(d)' = {} /\ Hand(d)' = <<>>
      /\ \A d \in Delivery \ S : InHand(d)' = InHand(d) /\ Hand(d)' = Hand(d)
  BY HandsNext DEF Drops, OthersKeepHands
<1>2. \A d \in Delivery : Distinct(Hand(d)')
  BY <1>1, EmptyRange DEF HandInv
<1>3. \A d \in Delivery \ S : \A u \in InHand(d) : u \notin lost'
  BY DEF Drops, HandInv
<1>4. HandInv'
  BY <1>1, <1>2, <1>3 DEF Drops, HandInv, Distinct
<1>5. FateInv'
  <2>1. \A u \in UNION {InHand(d) : d \in S} : u \in recorded /\ dispatched[u] = 0
    BY DEF HandInv
  <2> QED
    BY <2>1 DEF Drops, FateInv
<1>6. AccountInv'
  <2>1. \A u \in recorded, d \in S : u \in InHand(d) => u \in lost'
    BY DEF Drops
  <2> QED
    BY <1>1, <2>1 DEF Drops, AccountInv
<1> QED
  BY <1>4, <1>5, <1>6

LEMMA Inductive == IInv /\ [Next]_vars => IInv'
<1> SUFFICES ASSUME IInv, [Next]_vars PROVE IInv'
  OBVIOUS
<1>1. TypeOK' /\ StageInv'
  BY TypeStep, StageStep DEF IInv
<1>2. HandStep
  BY EveryStepIsAHandStep DEF IInv
<1>3. HandInv' /\ FateInv' /\ AccountInv'
  BY <1>2, HandsKeep, HandsGrab, HandsForget, HandsRelease, HandsDrop DEF HandStep, IInv
<1> QED
  BY <1>1, <1>3 DEF IInv

\* The inductive invariant: an update in hand is unseen by handlers and in one hand.
THEOREM Invariance == Spec => []IInv
<1>1. Init => IInv
  BY TypeInit, StageInit, HandsInit DEF IInv
<1> QED
  BY <1>1, Inductive, PTL DEF Spec

\* However often and in however many deliveries Meta posts an update that has a key, its
\* handlers are run once at most (handleWebhook, recordWebhookEvent).
THEOREM AtMostOnce == Spec => []DispatchedAtMostOnce
<1>1. IInv => DispatchedAtMostOnce
  BY DEF IInv, FateInv, DispatchedAtMostOnce
<1> QED
  BY <1>1, Invariance, PTL

-----------------------------------------------------------------------------
(* Refinement *)

LEMMA FateOf ==
  ASSUME NEW u \in Keyed
  PROVE  /\ Fate[u] = IF dispatched[u] > 0 THEN "handled" ELSE IF u \in lost THEN "lost"
                      ELSE IF u \in recorded THEN "taken" ELSE "unseen"
         /\ Fate'[u] = IF dispatched'[u] > 0 THEN "handled" ELSE IF u \in lost' THEN "lost"
                      ELSE IF u \in recorded' THEN "taken" ELSE "unseen"
BY DEF Fate

LEMMA FateStays ==
  ASSUME UNCHANGED <<recorded, dispatched, lost>>
  PROVE  UNCHANGED Fate
BY DEF Fate

LEMMA FateMoves ==
  ASSUME NEW u \in Keyed, \A v \in Keyed \ {u} : Fate'[v] = Fate[v]
  PROVE  Fate' = [Fate EXCEPT ![u] = Fate'[u]]
<1>1. Fate = [v \in Keyed |-> Fate[v]] /\ Fate' = [v \in Keyed |-> Fate'[v]]
  BY DEF Fate
<1> QED
  BY <1>1

LEMMA FateIsTaken ==
  ASSUME IInv, NEW d \in Delivery, NEW u \in Update, Grabs(d, u)
  PROVE  [Contract!Next]_Fate
<1>1. CASE u \in Keyed
  <2>1. dispatched[u] = 0 /\ u \notin lost /\ u \notin recorded
    BY <1>1 DEF IInv, FateInv, Grabs
  <2>2. Fate[u] = "unseen" /\ Fate'[u] = "taken"
    BY <1>1, <2>1, FateOf DEF Grabs
  <2>3. \A v \in Keyed \ {u} : Fate'[v] = Fate[v]
    BY FateOf DEF Grabs
  <2>4. Contract!Take(u)
    BY <1>1, <2>2, <2>3, FateMoves DEF Contract!Take
  <2> QED
    BY <1>1, <2>4 DEF Contract!Next
<1>2. CASE u \notin Keyed
  BY <1>2, FateStays DEF Grabs
<1> QED
  BY <1>1, <1>2

LEMMA FateIsHandled ==
  ASSUME IInv, NEW d \in Delivery, NEW u \in Update, Releases(d, u)
  PROVE  [Contract!Next]_Fate
<1>1. /\ dispatched'[u] = dispatched[u] + 1
      /\ \A v \in Update \ {u} : dispatched'[v] = dispatched[v]
      /\ UNCHANGED <<recorded, lost>>
  BY DEF Releases, IInv, TypeOK
<1>2. \A v \in Keyed \ {u} : Fate'[v] = Fate[v]
  BY <1>1, FateOf DEF Keyed
<1>3. CASE u \in Keyed
  <2>1. u \in InHand(d)
    BY <1>3, ReleasedHand DEF IInv
  <2>2. dispatched[u] = 0 /\ u \notin lost /\ u \in recorded
    BY <2>1 DEF IInv, HandInv
  <2>3. Fate[u] = "taken" /\ Fate'[u] = "handled"
    BY <1>1, <1>3, <2>2, FateOf
  <2>4. Contract!Handle(u)
    BY <1>2, <1>3, <2>3, FateMoves DEF Contract!Handle
  <2> QED
    BY <1>3, <2>4 DEF Contract!Next
<1>4. CASE u \notin Keyed
  <2>1. \A v \in Keyed : Fate'[v] = Fate[v]
    BY <1>2, <1>4
  <2>2. Fate' = Fate
    BY <2>1 DEF Fate
  <2> QED
    BY <2>2
<1> QED
  BY <1>3, <1>4

LEMMA FateIsLost ==
  ASSUME IInv, NEW L \in SUBSET Keyed,
         \A u \in L : dispatched[u] = 0 /\ u \notin lost,
         UNCHANGED dispatched, lost' = lost \cup L,
         recorded' \ L = recorded \ L
  PROVE  [Contract!Next]_Fate
<1>1. \A u \in L : Fate[u] \in {"unseen", "taken"} /\ Fate'[u] = "lost"
  BY FateOf
<1>2. \A u \in Keyed \ L : Fate'[u] = Fate[u]
  <2> TAKE u \in Keyed \ L
  <2>1. (u \in lost' <=> u \in lost) /\ (u \in recorded' <=> u \in recorded)
    OBVIOUS
  <2> QED
    BY <2>1, FateOf
<1>3. Fate' = [u \in Keyed |-> Fate'[u]]
  BY DEF Fate
<1>4. Fate' = [u \in Keyed |-> IF u \in L THEN "lost" ELSE Fate[u]]
  BY <1>1, <1>2, <1>3
<1>5. Contract!Lose(L)
  BY <1>1, <1>4 DEF Contract!Lose
<1> QED
  BY <1>5 DEF Contract!Next

LEMMA FateStep == IInv /\ [Next]_vars => [Contract!Next]_Fate
<1> SUFFICES ASSUME IInv, [Next]_vars PROVE [Contract!Next]_Fate
  OBVIOUS
<1>1. HandStep
  BY EveryStepIsAHandStep DEF IInv
<1>2. CASE Keeps
  BY <1>2, FateStays DEF Keeps
<1>3. ASSUME NEW u \in Update, Forgets(u) PROVE [Contract!Next]_Fate
  <2>1. u \in Keyed /\ dispatched[u] = 0 /\ u \notin lost
    BY <1>3 DEF Forgets, IInv, FateInv
  <2>2. /\ UNCHANGED dispatched /\ lost' = lost \cup {u}
        /\ recorded' \ {u} = recorded \ {u}
    BY <1>3 DEF Forgets
  <2> QED
    BY <2>1, <2>2, FateIsLost
<1>4. ASSUME NEW S \in SUBSET Delivery, Drops(S) PROVE [Contract!Next]_Fate
  <2> DEFINE L == UNION {InHand(d) : d \in S}
  <2>1. L \subseteq Keyed
    BY HandType DEF IInv
  <2>2. \A u \in L : dispatched[u] = 0 /\ u \notin lost
    BY DEF IInv, HandInv
  <2>3. UNCHANGED <<dispatched, recorded>> /\ lost' = lost \cup L
    BY <1>4 DEF Drops
  <2> HIDE DEF L
  <2> QED
    BY <2>1, <2>2, <2>3, FateIsLost
<1> QED
  BY <1>1, <1>2, <1>3, <1>4, FateIsTaken, FateIsHandled DEF HandStep

\* Each keyed update is taken once, then handled or lost for good: webhook ingestion
\* implements OnceOnlyInbox.
THEOREM Refinement == Spec => ImplementsOnceOnlyInbox
<1>1. Init => Contract!Init
  <2> SUFFICES ASSUME Init PROVE Fate = [u \in Keyed |-> "unseen"]
    BY DEF Contract!Init
  <2>1. \A u \in Keyed : ~ dispatched[u] > 0 /\ u \notin lost /\ u \notin recorded
    BY DEF Init, Keyed
  <2> QED
    BY <2>1 DEF Fate
<1> QED
  BY <1>1, FateStep, Invariance, PTL DEF Spec, ImplementsOnceOnlyInbox, Contract!Spec

-----------------------------------------------------------------------------
(* Answers *)

\* What the loops of a delivery still have before them, and behind them.
LoopInv(d) ==
  /\ stage[d] = "new" => body[d] = <<>> /\ left[d] = <<>> /\ deduped[d] = <<>>
  /\ Range(left[d]) \cup Range(toDispatch[d]) \cup Range(deduped[d]) \subseteq Range(body[d])
  /\ Range(deduped[d]) \cup (Range(toDispatch[d]) \cap Keyed) \subseteq recorded
  /\ stage[d] = "recording" /\ ~ dedupFailed[d] =>
       Range(body[d]) \subseteq Range(left[d]) \cup Range(toDispatch[d]) \cup Range(deduped[d])
  /\ stage[d] = "projecting" /\ ~ dedupFailed[d] =>
       Range(body[d]) \subseteq Range(toDispatch[d]) \cup Range(deduped[d])
  /\ (stage[d] = "dispatching" \/ answer[d] = "ok") /\ ~ dedupFailed[d] =>
       \A u \in Range(body[d]) : u \in Range(left[d]) \/ u \in recorded \/ dispatched[u] > 0
  /\ answer[d] = "ok" => ~ dedupFailed[d] /\ left[d] = <<>>

\* Which updates a delivery still has to project.
ProjectInv(d) ==
  ~ dedupFailed[d] =>
    /\ stage[d] = "projecting" =>
         \A u \in Range(body[d]) \cap Projected :
           u \in Range(left[d]) \/ stored[u] # {} \/ u \in missed[d]
    /\ stage[d] = "dispatching" \/ answer[d] = "ok" =>
         \A u \in Range(body[d]) \cap Projected : stored[u] # {} \/ u \in missed[d]

\* Who has passed the gate, and what the others were told.
GateInv(d) ==
  /\ answer[d] \in Refusal => answer[d] = AnswerTo(request[d], body[d])
  /\ stage[d] # "new" /\ answer[d] \notin Refusal => Authentic(request[d])
  /\ stage[d] # "new" => envelope[d] \in Envelopes /\ body[d] = Normalize(envelope[d]).updates

Local(d) == LoopInv(d) /\ ProjectInv(d) /\ GateInv(d)

\* The store and the application forget nothing.
Grows ==
  /\ recorded \subseteq recorded'
  /\ \A u \in Update : dispatched[u] > 0 => dispatched'[u] > 0
  /\ \A u \in Projected : stored[u] # {} => stored'[u] # {}

LEMMA EveryStepGrows ==
  ASSUME TypeOK, [Next]_vars
  PROVE  Grows
<1>1. ASSUME NEW d \in Delivery, NEW u \in Update, Project(d, u) PROVE Grows
  <2>1. \/ UNCHANGED stored
        \/ u \in Projected /\ stored' = [stored EXCEPT ![u] = Projects(u, receipt[d])]
    BY <1>1 DEF Project
  <2>2. stored[u] # {} => Projects(u, receipt[d]) # {}
    BY DEF Projects
  <2>3. UNCHANGED <<recorded, dispatched>>
    BY <1>1 DEF Project
  <2> QED
    BY <2>1, <2>2, <2>3 DEF Grows, TypeOK
<1>2. ASSUME NEW d \in Delivery, NEW u \in Update, NEW commits \in BOOLEAN,
             ProjectThrows(d, u, commits)
      PROVE  Grows
  <2>1. \/ UNCHANGED stored
        \/ u \in Projected /\ stored' = [stored EXCEPT ![u] = Projects(u, receipt[d])]
    BY <1>2 DEF ProjectThrows
  <2>2. stored[u] # {} => Projects(u, receipt[d]) # {}
    BY DEF Projects
  <2>3. UNCHANGED <<recorded, dispatched>>
    BY <1>2 DEF ProjectThrows
  <2> QED
    BY <2>1, <2>2, <2>3 DEF Grows, TypeOK
<1>3. ASSUME NEW d \in Delivery, NEW u \in Update, Dispatch(d, u) PROVE Grows
  BY <1>3 DEF Dispatch, storeVars, Grows, TypeOK
<1>4. ASSUME NEW d \in Delivery, NEW u \in Update,
             Record(d, u) \/ \E commits \in BOOLEAN : RecordThrows(d, u, commits)
      PROVE  Grows
  BY <1>4 DEF Record, RecordThrows, Grows
<1>5. ASSUME NEW d \in Delivery,
             \/ \E e \in Envelopes : Post(d, e)
             \/ PostAgain(d) \/ AllRecorded(d) \/ AllProjected(d) \/ Respond(d)
      PROVE  Grows
  BY <1>5 DEF Post, PostAgain, AllRecorded, AllProjected, Turns, Respond, storeVars, Grows
<1>6. ASSUME NEW S \in SUBSET InFlight, Crash(S) PROVE Grows
  BY <1>6 DEF Crash, storeVars, Grows
<1>7. CASE UNCHANGED vars
  BY <1>7 DEF vars, storeVars, Grows
<1> QED
  BY <1>1, <1>2, <1>3, <1>4, <1>5, <1>6, <1>7 DEF Next, Step, Terminated

\* A delivery that takes no step keeps its part of the invariant.
StaysPut(d) ==
  /\ stage'[d] = stage[d] /\ left'[d] = left[d] /\ toDispatch'[d] = toDispatch[d]
  /\ deduped'[d] = deduped[d] /\ dedupFailed'[d] = dedupFailed[d] /\ answer'[d] = answer[d]
  /\ body'[d] = body[d] /\ envelope'[d] = envelope[d] /\ request'[d] = request[d]
  /\ missed'[d] = missed[d]

LEMMA LocalStays ==
  ASSUME TypeOK, Grows, NEW d \in Delivery, Local(d), StaysPut(d)
  PROVE  Local(d)'
<1>1. Range(body[d]) \subseteq Update
  BY RangeOfSeq DEF TypeOK
<1>2. LoopInv(d)'
  BY <1>1 DEF Local, LoopInv, StaysPut, Grows
<1>3. ProjectInv(d)'
  BY DEF Local, ProjectInv, StaysPut, Grows
<1>4. GateInv(d)'
  BY DEF Local, GateInv, StaysPut
<1> QED
  BY <1>2, <1>3, <1>4 DEF Local

LEMMA GateOpens ==
  ASSUME NEW r \in Request, NEW b, AnswerTo(r, b) = "accepted"
  PROVE  Authentic(r)
<1>1. r.signature \in Signature
  BY DEF Request
<1>2. Verdict(r) = "accepted"
  BY DEF AnswerTo
<1>3. Read(r) = "body"
  BY <1>2 DEF Verdict, Read
<1>4. r.signature = "right"
  BY <1>1, <1>2, <1>3 DEF Verdict, Signature
<1> QED
  BY <1>3, <1>4 DEF Authentic

LEMMA RequestType == ASSUME TypeOK, NEW d \in Delivery PROVE request[d] \in Request
BY WebhookAssumption DEF TypeOK

LEMMA LocalPost ==
  ASSUME TypeOK, StageInv, NEW d \in Delivery, Local(d), NEW e \in Envelopes, Post(d, e)
  PROVE  Local(d)'
<1> DEFINE b == Normalize(e).updates
           a == AnswerTo(request[d], b)
<1>1. /\ stage[d] = "new" /\ answer[d] = "none"
      /\ left[d] = <<>> /\ toDispatch[d] = <<>> /\ deduped[d] = <<>>
  BY DEF Post, StageInv, Local, LoopInv
<1>2. /\ body'[d] = b /\ envelope'[d] = e /\ request'[d] = request[d]
      /\ UNCHANGED <<toDispatch, deduped, dedupFailed, recorded>>
  BY DEF Post, TypeOK, lists, storeVars
<1>3. CASE a = "accepted"
  <2>1. stage'[d] = "recording" /\ left'[d] = b /\ answer'[d] = "none"
    BY <1>1, <1>3 DEF Post, TypeOK
  <2>2. LoopInv(d)'
    BY <1>1, <1>2, <2>1, EmptyRange DEF LoopInv
  <2>3. ProjectInv(d)'
    BY <2>1 DEF ProjectInv
  <2>4. GateInv(d)'
    BY <1>2, <1>3, <2>1, GateOpens, RequestType DEF GateInv, Refusal, Refused
  <2> QED
    BY <2>2, <2>3, <2>4 DEF Local
<1>4. CASE a # "accepted"
  <2>1. stage'[d] = "done" /\ left'[d] = <<>> /\ answer'[d] = a
    BY <1>1, <1>4 DEF Post, TypeOK
  <2>2. a \in Refusal
    BY <1>4 DEF AnswerTo, Verdict, Refusal, Refused
  <2>3. a # "ok"
    BY <2>2 DEF Refusal, Refused
  <2>4. LoopInv(d)'
    BY <1>1, <1>2, <2>1, <2>3, EmptyRange DEF LoopInv
  <2>5. ProjectInv(d)'
    BY <2>1, <2>3 DEF ProjectInv
  <2>6. GateInv(d)'
    BY <1>2, <2>1, <2>2 DEF GateInv
  <2> QED
    BY <2>4, <2>5, <2>6 DEF Local
<1> QED
  BY <1>3, <1>4

LEMMA LocalPostAgain ==
  ASSUME TypeOK, StageInv, NEW d \in Delivery, Local(d), PostAgain(d)
  PROVE  Local(d)'
<1>1. /\ stage[d] = "done" /\ answer[d] \notin Refusal
  BY DEF PostAgain, StageInv, Refusal, Refused
<1>2. /\ stage'[d] = "recording" /\ left'[d] = body[d] /\ answer'[d] = "none"
      /\ toDispatch'[d] = <<>> /\ deduped'[d] = <<>>
      /\ UNCHANGED <<request, envelope, body, recorded>>
  BY DEF PostAgain, TypeOK, posted, storeVars
<1>3. LoopInv(d)'
  BY <1>2, EmptyRange DEF LoopInv
<1>4. ProjectInv(d)'
  BY <1>2 DEF ProjectInv
<1>5. GateInv(d)'
  BY <1>1, <1>2 DEF GateInv, Local, Refusal, Refused
<1> QED
  BY <1>3, <1>4, <1>5 DEF Local

\* Steps that change neither the envelope nor whether it was refused.
LEMMA GateStays ==
  ASSUME TypeOK, NEW d \in Delivery, GateInv(d),
         UNCHANGED <<request, envelope, body>>, stage[d] # "new",
         answer[d] \notin Refusal, answer'[d] \notin Refusal
  PROVE  GateInv(d)'
BY DEF GateInv

LEMMA LocalRecord ==
  ASSUME TypeOK, StageInv, NEW d \in Delivery, Local(d), NEW u \in Update, Record(d, u)
  PROVE  Local(d)'
<1>1. /\ stage[d] = "recording" /\ answer[d] = "none"
      /\ UNCHANGED <<stage, answer, request, envelope, body, dedupFailed>>
      /\ recorded' = recorded \cup ({u} \cap Keyed)
  BY DEF Record, Takes, StageInv, posted
<1>2. Range(left[d]) = {u} \cup Range(left'[d])
  BY TakesType, RangeOfTail DEF Record
<1>3. CASE u \in recorded
  <2>1. deduped'[d] = Append(deduped[d], u) /\ toDispatch'[d] = toDispatch[d]
    BY <1>3 DEF Record, TypeOK
  <2>2. deduped[d] \in Seq(Keyed) /\ u \in Keyed
    BY <1>3 DEF TypeOK
  <2>3. Range(deduped'[d]) = Range(deduped[d]) \cup {u}
    BY <2>1, <2>2, RangeOfAppend
  <2> QED
    BY <1>1, <1>2, <1>3, <2>1, <2>3, GateStays DEF Local, LoopInv, ProjectInv, Refusal, Refused
<1>4. CASE u \notin recorded
  <2>1. toDispatch'[d] = Append(toDispatch[d], u) /\ deduped'[d] = deduped[d]
    BY <1>4 DEF Record, TypeOK
  <2>2. toDispatch[d] \in Seq(Update)
    BY DEF TypeOK
  <2>3. Range(toDispatch'[d]) = Range(toDispatch[d]) \cup {u}
    BY <2>1, <2>2, RangeOfAppend
  <2> QED
    BY <1>1, <1>2, <2>1, <2>3, GateStays DEF Local, LoopInv, ProjectInv, Refusal, Refused
<1> QED
  BY <1>3, <1>4

LEMMA LocalThrows ==
  ASSUME TypeOK, StageInv, NEW d \in Delivery, Local(d), NEW u \in Update,
         NEW commits \in BOOLEAN, RecordThrows(d, u, commits)
  PROVE  Local(d)'
<1>1. /\ stage[d] = "recording" /\ answer[d] = "none" /\ left'[d] = <<>> /\ dedupFailed'[d]
      /\ UNCHANGED <<stage, answer, request, envelope, body, toDispatch, deduped>>
      /\ recorded \subseteq recorded'
  BY DEF RecordThrows, StageInv, TypeOK, posted, lists
<1> QED
  BY <1>1, EmptyRange, GateStays DEF Local, LoopInv, ProjectInv, Refusal, Refused

LEMMA LocalProject ==
  ASSUME TypeOK, StageInv, NEW d \in Delivery, Local(d), NEW u \in Update, Grows,
         Project(d, u) \/ \E commits \in BOOLEAN : ProjectThrows(d, u, commits)
  PROVE  Local(d)'
<1>1. Takes(d, "projecting", u)
  BY DEF Project, ProjectThrows
<1>2. /\ stage[d] = "projecting" /\ answer[d] = "none"
      /\ UNCHANGED <<stage, answer, request, envelope, body, dedupFailed>>
      /\ UNCHANGED <<recorded, toDispatch, deduped>>
  BY <1>1 DEF Project, ProjectThrows, Takes, StageInv, posted, lists
<1>3. Range(left[d]) = {u} \cup Range(left'[d])
  BY <1>1, TakesType, RangeOfTail
<1>4. /\ missed[d] \subseteq missed'[d]
      /\ u \in Projected => stored'[u] # {} \/ u \in missed'[d]
  BY DEF Project, ProjectThrows, TypeOK
<1>5. LoopInv(d)'
  BY <1>2, <1>3 DEF Local, LoopInv
<1>6. ProjectInv(d)'
  BY <1>2, <1>3, <1>4 DEF Local, ProjectInv, Grows
<1> QED
  BY <1>2, <1>5, <1>6, GateStays DEF Local, Refusal, Refused

LEMMA LocalAllRecorded ==
  ASSUME TypeOK, StageInv, NEW d \in Delivery, Local(d), AllRecorded(d)
  PROVE  Local(d)'
<1>1. /\ stage[d] = "recording" /\ answer[d] = "none" /\ left[d] = <<>>
      /\ stage'[d] = "projecting" /\ left'[d] = toDispatch[d] \o deduped[d]
      /\ UNCHANGED <<answer, request, envelope, body, dedupFailed, recorded, toDispatch, deduped>>
  BY DEF AllRecorded, Turns, StageInv, TypeOK, posted, lists, storeVars
<1>2. toDispatch[d] \in Seq(Update) /\ deduped[d] \in Seq(Update)
  <2>1. toDispatch[d] \in Seq(Update) /\ deduped[d] \in Seq(Keyed)
    BY DEF TypeOK
  <2> QED
    BY <2>1, SeqMonotonic DEF Keyed
<1>3. Range(left'[d]) = Range(toDispatch[d]) \cup Range(deduped[d])
  BY <1>1, <1>2, RangeConcatenation
<1>4. LoopInv(d)'
  BY <1>1, <1>3, EmptyRange DEF Local, LoopInv
<1>5. ProjectInv(d)'
  BY <1>1, <1>3, EmptyRange DEF Local, LoopInv, ProjectInv
<1> QED
  BY <1>1, <1>4, <1>5, GateStays DEF Local, Refusal, Refused

LEMMA LocalAllProjected ==
  ASSUME TypeOK, StageInv, NEW d \in Delivery, Local(d), AllProjected(d)
  PROVE  Local(d)'
<1>1. /\ stage[d] = "projecting" /\ answer[d] = "none" /\ left[d] = <<>>
      /\ stage'[d] = "dispatching" /\ left'[d] = toDispatch[d]
      /\ UNCHANGED <<answer, request, envelope, body, dedupFailed, recorded, toDispatch, deduped>>
      /\ UNCHANGED <<stored, missed, dispatched>>
  BY DEF AllProjected, Turns, StageInv, TypeOK, posted, lists, storeVars
<1>2. LoopInv(d)'
  BY <1>1, EmptyRange DEF Local, LoopInv
<1>3. ProjectInv(d)'
  BY <1>1, EmptyRange DEF Local, ProjectInv
<1> QED
  BY <1>1, <1>2, <1>3, GateStays DEF Local, Refusal, Refused

LEMMA LocalDispatch ==
  ASSUME TypeOK, StageInv, NEW d \in Delivery, Local(d), NEW u \in Update, Grows, Dispatch(d, u)
  PROVE  Local(d)'
<1>1. /\ stage[d] = "dispatching" /\ answer[d] = "none"
      /\ UNCHANGED <<stage, answer, request, envelope, body, dedupFailed>>
      /\ UNCHANGED <<recorded, toDispatch, deduped, stored, missed>>
      /\ dispatched'[u] > 0
  BY DEF Dispatch, Takes, StageInv, TypeOK, posted, lists, storeVars
<1>2. Range(left[d]) = {u} \cup Range(left'[d])
  BY TakesType, RangeOfTail DEF Dispatch
<1>3. Range(body[d]) \subseteq Update
  BY RangeOfSeq DEF TypeOK
<1>4. LoopInv(d)'
  BY <1>1, <1>2, <1>3 DEF Local, LoopInv, Grows
<1>5. ProjectInv(d)'
  BY <1>1 DEF Local, ProjectInv
<1> QED
  BY <1>1, <1>4, <1>5, GateStays DEF Local, Refusal, Refused

LEMMA LocalRespond ==
  ASSUME TypeOK, StageInv, NEW d \in Delivery, Local(d), Respond(d)
  PROVE  Local(d)'
<1>1. /\ stage[d] = "dispatching" /\ answer[d] = "none" /\ left[d] = <<>>
      /\ stage'[d] = "done"
      /\ answer'[d] = IF dedupFailed[d] THEN "unavailable" ELSE "ok"
      /\ UNCHANGED <<left, request, envelope, body, dedupFailed>>
      /\ UNCHANGED <<recorded, toDispatch, deduped, stored, missed, dispatched>>
  BY DEF Respond, StageInv, TypeOK, posted, lists, storeVars
<1>2. LoopInv(d)'
  BY <1>1 DEF Local, LoopInv
<1>3. ProjectInv(d)'
  BY <1>1 DEF Local, ProjectInv
<1> QED
  BY <1>1, <1>2, <1>3, GateStays DEF Local, Refusal, Refused

LEMMA LocalDies ==
  ASSUME TypeOK, StageInv, NEW d \in Delivery, Local(d), NEW S \in SUBSET InFlight, d \in S, Crash(S)
  PROVE  Local(d)'
<1>1. /\ stage[d] # "new" /\ answer[d] = "none"
      /\ stage'[d] = "done" /\ answer'[d] = "died"
      /\ UNCHANGED <<left, request, envelope, body, dedupFailed>>
      /\ UNCHANGED <<recorded, toDispatch, deduped, stored, missed, dispatched>>
  BY DEF Crash, InFlight, StageInv, TypeOK, posted, lists, storeVars
<1>2. LoopInv(d)'
  BY <1>1 DEF Local, LoopInv
<1>3. ProjectInv(d)'
  BY <1>1 DEF Local, ProjectInv
<1> QED
  BY <1>1, <1>2, <1>3, GateStays DEF Local, Refusal, Refused

\* A step of one delivery leaves the others where they are.
Only(S) == \A e \in Delivery \ S : StaysPut(e)

LEMMA LocalStep ==
  ASSUME TypeOK, StageInv, \A d \in Delivery : Local(d), [Next]_vars
  PROVE  \A d \in Delivery : Local(d)'
<1>1. Grows
  BY EveryStepGrows
<1>2. ASSUME NEW S \in SUBSET Delivery, Only(S), \A d \in S : Local(d)'
      PROVE  \A d \in Delivery : Local(d)'
  <2> TAKE d \in Delivery
  <2>1. CASE d \in S
    BY <1>2, <2>1
  <2>2. CASE d \notin S
    <3>1. StaysPut(d)
      BY <1>2, <2>2 DEF Only
    <3> QED
      BY <1>1, <3>1, LocalStays
  <2> QED
    BY <2>1, <2>2
<1>3. ASSUME NEW d \in Delivery, Only({d}), Local(d)'
      PROVE  \A e \in Delivery : Local(e)'
  BY <1>2, <1>3
<1>4. ASSUME NEW d \in Delivery, NEW e \in Envelopes, Post(d, e)
      PROVE  Only({d}) /\ Local(d)'
  BY <1>4, LocalPost DEF Post, storeVars, lists, TypeOK, Only, StaysPut
<1>5. ASSUME NEW d \in Delivery, PostAgain(d) PROVE Only({d}) /\ Local(d)'
  BY <1>5, LocalPostAgain DEF PostAgain, posted, TypeOK, Only, StaysPut
<1>6. ASSUME NEW d \in Delivery, NEW u \in Update, Record(d, u) PROVE Only({d}) /\ Local(d)'
  BY <1>6, LocalRecord DEF Record, Takes, posted, TypeOK, Only, StaysPut
<1>7. ASSUME NEW d \in Delivery, NEW u \in Update, NEW commits \in BOOLEAN,
             RecordThrows(d, u, commits)
      PROVE  Only({d}) /\ Local(d)'
  BY <1>7, LocalThrows DEF RecordThrows, posted, lists, TypeOK, Only, StaysPut
<1>8. ASSUME NEW d \in Delivery, NEW u \in Update,
             Project(d, u) \/ \E commits \in BOOLEAN : ProjectThrows(d, u, commits)
      PROVE  Only({d}) /\ Local(d)'
  <2>1. Local(d)'
    BY <1>1, <1>8, LocalProject
  <2> QED
    BY <1>8, <2>1 DEF Project, ProjectThrows, Takes, posted, lists, TypeOK, Only, StaysPut
<1>9. ASSUME NEW d \in Delivery, NEW u \in Update, Dispatch(d, u) PROVE Only({d}) /\ Local(d)'
  BY <1>1, <1>9, LocalDispatch DEF Dispatch, Takes, posted, lists, TypeOK, Only, StaysPut
<1>10. ASSUME NEW d \in Delivery, AllRecorded(d) \/ AllProjected(d) PROVE Only({d}) /\ Local(d)'
  BY <1>10, LocalAllRecorded, LocalAllProjected
     DEF AllRecorded, AllProjected, Turns, posted, lists, TypeOK, Only, StaysPut
<1>11. ASSUME NEW d \in Delivery, Respond(d) PROVE Only({d}) /\ Local(d)'
  BY <1>11, LocalRespond DEF Respond, posted, lists, TypeOK, Only, StaysPut
<1>12. ASSUME NEW S \in SUBSET InFlight, Crash(S) PROVE \A d \in Delivery : Local(d)'
  <2>1. S \in SUBSET Delivery
    BY DEF InFlight
  <2>2. Only(S)
    BY <1>12 DEF Crash, posted, lists, TypeOK, Only, StaysPut
  <2>3. \A d \in S : Local(d)'
    BY <1>12, <2>1, LocalDies
  <2> QED
    BY <1>2, <2>1, <2>2, <2>3
<1>13. CASE UNCHANGED vars
  <2>1. Only({})
    BY <1>13 DEF vars, posted, lists, Only, StaysPut
  <2> QED
    BY <1>2, <2>1
<1> QED
  BY <1>3, <1>4, <1>5, <1>6, <1>7, <1>8, <1>9, <1>10, <1>11, <1>12, <1>13
     DEF Next, Step, Terminated

LEMMA LocalInit == Init => \A d \in Delivery : Local(d)
BY EmptyRange DEF Init, Local, LoopInv, ProjectInv, GateInv, Refusal, Refused

\* What a delivery was posted with stays, and it is not refused later.
KeepsItsRequest(d) ==
  stage[d] # "new" =>
    /\ body'[d] = body[d] /\ request'[d] = request[d]
    /\ answer'[d] = answer[d] \/ answer'[d] \in {"none", "ok", "unavailable", "died"}

LEMMA RequestStays ==
  ASSUME TypeOK, [Next]_vars, NEW d \in Delivery
  PROVE  KeepsItsRequest(d)
<1>1. ASSUME NEW e \in Delivery, NEW f \in Envelopes, Post(e, f) PROVE KeepsItsRequest(d)
  BY <1>1 DEF Post, KeepsItsRequest, TypeOK
<1>2. ASSUME NEW e \in Delivery, PostAgain(e) PROVE KeepsItsRequest(d)
  BY <1>2 DEF PostAgain, posted, KeepsItsRequest, TypeOK
<1>3. ASSUME NEW e \in Delivery, NEW u \in Update,
             \/ Record(e, u) \/ Project(e, u) \/ Dispatch(e, u)
             \/ \E commits \in BOOLEAN : RecordThrows(e, u, commits) \/ ProjectThrows(e, u, commits)
      PROVE  KeepsItsRequest(d)
  BY <1>3 DEF Record, Project, Dispatch, RecordThrows, ProjectThrows, Takes, posted, KeepsItsRequest
<1>4. ASSUME NEW e \in Delivery, AllRecorded(e) \/ AllProjected(e) \/ Respond(e)
      PROVE  KeepsItsRequest(d)
  BY <1>4 DEF AllRecorded, AllProjected, Turns, Respond, posted, KeepsItsRequest, TypeOK
<1>5. ASSUME NEW S \in SUBSET InFlight, Crash(S) PROVE KeepsItsRequest(d)
  BY <1>5 DEF Crash, posted, KeepsItsRequest, TypeOK
<1>6. CASE UNCHANGED vars
  BY <1>6 DEF vars, posted, KeepsItsRequest
<1> QED
  BY <1>1, <1>2, <1>3, <1>4, <1>5, <1>6 DEF Next, Step, Terminated

\* What the store or a handler has seen.
HasBeenSeen(u) == dispatched[u] > 0 \/ u \in recorded \/ (u \in Projected /\ stored[u] # {})

IsTurnOf(d, u) == stage[d] \notin {"new", "done"} /\ left[d] # <<>> /\ u = Head(left[d])

LEMMA SeenInTurn ==
  ASSUME TypeOK, [Next]_vars, NEW u \in Update, HasBeenSeen(u)', ~ HasBeenSeen(u)
  PROVE  \E d \in Delivery : IsTurnOf(d, u)
<1>1. ASSUME UNCHANGED <<recorded, stored, dispatched>> PROVE FALSE
  BY <1>1 DEF HasBeenSeen
<1>2. ASSUME NEW d \in Delivery, NEW v \in Update, Record(d, v) PROVE IsTurnOf(d, u)
  BY <1>2 DEF Record, Takes, IsTurnOf, HasBeenSeen
<1>3. ASSUME NEW d \in Delivery, NEW v \in Update, NEW commits \in BOOLEAN,
             RecordThrows(d, v, commits)
      PROVE  IsTurnOf(d, u)
  BY <1>3 DEF RecordThrows, IsTurnOf, HasBeenSeen
<1>4. ASSUME NEW d \in Delivery, NEW v \in Update,
             Project(d, v) \/ \E commits \in BOOLEAN : ProjectThrows(d, v, commits)
      PROVE  IsTurnOf(d, u)
  <2>1. \/ UNCHANGED stored
        \/ v \in Projected /\ stored' = [stored EXCEPT ![v] = Projects(v, receipt[d])]
    BY <1>4 DEF Project, ProjectThrows
  <2>2. UNCHANGED <<recorded, dispatched>> /\ Takes(d, "projecting", v)
    BY <1>4 DEF Project, ProjectThrows
  <2> QED
    BY <2>1, <2>2 DEF Takes, IsTurnOf, HasBeenSeen, TypeOK
<1>5. ASSUME NEW d \in Delivery, NEW v \in Update, Dispatch(d, v) PROVE IsTurnOf(d, u)
  BY <1>5 DEF Dispatch, Takes, storeVars, IsTurnOf, HasBeenSeen, TypeOK
<1>6. ASSUME NEW d \in Delivery,
             \/ \E e \in Envelopes : Post(d, e)
             \/ PostAgain(d) \/ AllRecorded(d) \/ AllProjected(d) \/ Respond(d)
      PROVE  FALSE
  BY <1>1, <1>6 DEF Post, PostAgain, AllRecorded, AllProjected, Turns, Respond, storeVars
<1>7. ASSUME NEW S \in SUBSET InFlight, Crash(S) PROVE FALSE
  BY <1>1, <1>7 DEF Crash, storeVars
<1>8. CASE UNCHANGED vars
  BY <1>1, <1>8 DEF vars, storeVars
<1> QED
  BY <1>2, <1>3, <1>4, <1>5, <1>6, <1>7, <1>8 DEF Next, Step, Terminated

\* The request of d is one that u may have come with.
Vouches(d, u) == u \in Range(body[d]) /\ answer[d] \notin Refusal /\ Authentic(request[d])

LEMMA AuthenticStep ==
  ASSUME TypeOK, StageInv, \A d \in Delivery : Local(d), OnlyAuthenticUpdates, [Next]_vars
  PROVE  OnlyAuthenticUpdates'
<1>1. ASSUME NEW d \in Delivery, NEW u \in Update, Vouches(d, u) PROVE Vouches(d, u)'
  <2>1. stage[d] # "new"
    BY <1>1, EmptyRange DEF Vouches, Local, LoopInv
  <2>2. KeepsItsRequest(d)
    BY RequestStays
  <2> QED
    BY <1>1, <2>1, <2>2 DEF Vouches, KeepsItsRequest, Refusal, Refused
<1>2. ASSUME NEW u \in Update, NEW d \in Delivery, IsTurnOf(d, u) PROVE Vouches(d, u)
  <2>1. u \in Range(left[d])
    BY <1>2, RangeOfTail DEF IsTurnOf, TypeOK
  <2>2. u \in Range(body[d])
    BY <2>1 DEF Local, LoopInv
  <2>3. answer[d] = "none"
    BY <1>2 DEF IsTurnOf, StageInv
  <2> QED
    BY <1>2, <2>2, <2>3 DEF IsTurnOf, Vouches, Local, GateInv, Refusal, Refused
<1>3. \A u \in Update : HasBeenSeen(u) => \E d \in Delivery : Vouches(d, u)
  BY DEF OnlyAuthenticUpdates, HasBeenSeen, Vouches
<1>4. ASSUME NEW u \in Update, HasBeenSeen(u)' PROVE \E d \in Delivery : Vouches(d, u)'
  BY <1>1, <1>2, <1>3, <1>4, SeenInTurn
<1> QED
  BY <1>4 DEF OnlyAuthenticUpdates, HasBeenSeen, Vouches

LEMMA RefusalsAreAlike ==
  ASSUME TypeOK, \A d \in Delivery : Local(d)
  PROVE  RefusalsTellNothing
<1> SUFFICES ASSUME NEW d \in Delivery, NEW e \in Delivery,
                    answer[d] \in Refusal, answer[e] \in Refusal, ~ Authentic(request[d]),
                    \A field \in DOMAIN request[d] \ {"content"} : request[d][field] = request[e][field]
             PROVE  answer[d] = answer[e]
  BY DEF RefusalsTellNothing
<1>1. request[d] \in Request /\ request[e] \in Request
  BY RequestType
<1>2. /\ request[d].declared = request[e].declared /\ request[d].bytes = request[e].bytes
      /\ request[d].breaks = request[e].breaks /\ request[d].signature = request[e].signature
  BY <1>1 DEF Request
<1>3. Read(request[d]) = Read(request[e])
  BY <1>2 DEF Read
<1>4. Read(request[d]) # "body" \/ request[d].signature \in Signature \ {"right"}
  BY <1>1 DEF Authentic, Request
<1>5. /\ Verdict(request[d]) = Verdict(request[e])
      /\ Verdict(request[d]) # "accepted"
  BY <1>2, <1>3, <1>4 DEF Verdict, Read, Signature
<1>6. answer[d] = AnswerTo(request[d], body[d]) /\ answer[e] = AnswerTo(request[e], body[e])
  BY DEF Local, GateInv
<1> QED
  BY <1>5, <1>6 DEF AnswerTo

LEMMA OkMeansDone ==
  ASSUME TypeOK, AccountInv, \A d \in Delivery : Local(d)
  PROVE  OkLeavesNothingToRetry /\ OkRepairsProjections
<1>1. OkLeavesNothingToRetry
  <2> SUFFICES ASSUME NEW d \in Delivery, answer[d] = "ok", NEW u \in Range(body[d])
               PROVE  dispatched[u] > 0 \/ u \in lost \/ \E e \in Delivery : u \in InHand(e)
    BY DEF OkLeavesNothingToRetry
  <2>1. u \in recorded \/ dispatched[u] > 0
    BY EmptyRange DEF Local, LoopInv
  <2> QED
    BY <2>1 DEF AccountInv
<1>2. OkRepairsProjections
  BY DEF OkRepairsProjections, Local, LoopInv, ProjectInv
<1> QED
  BY <1>1, <1>2

AnswerInv == IInv /\ (\A d \in Delivery : Local(d)) /\ OnlyAuthenticUpdates

LEMMA AnswersInvariant == Spec => []AnswerInv
<1>1. Init => AnswerInv
  <2>1. Init => IInv
    BY TypeInit, StageInit, HandsInit DEF IInv
  <2>2. Init => OnlyAuthenticUpdates
    BY DEF Init, OnlyAuthenticUpdates
  <2> QED
    BY <2>1, <2>2, LocalInit DEF AnswerInv
<1>2. AnswerInv /\ [Next]_vars => AnswerInv'
  <2> SUFFICES ASSUME AnswerInv, [Next]_vars PROVE AnswerInv'
    OBVIOUS
  <2>1. IInv'
    BY Inductive DEF AnswerInv
  <2>2. \A d \in Delivery : Local(d)'
    BY LocalStep DEF AnswerInv, IInv
  <2>3. OnlyAuthenticUpdates'
    BY AuthenticStep DEF AnswerInv, IInv
  <2> QED
    BY <2>1, <2>2, <2>3 DEF AnswerInv
<1> QED
  BY <1>1, <1>2, PTL DEF Spec

\* A 200 leaves nothing to retry and nothing unprojected; refused requests leave no trace,
\* and those without the secret learn nothing (handleWebhook, handleDispatch).
THEOREM AnswersAreKept ==
  Spec => [](/\ OkLeavesNothingToRetry /\ OkRepairsProjections
             /\ OnlyAuthenticUpdates /\ RefusalsTellNothing)
<1>1. AnswerInv => /\ OkLeavesNothingToRetry /\ OkRepairsProjections
                   /\ OnlyAuthenticUpdates /\ RefusalsTellNothing
  BY OkMeansDone, RefusalsAreAlike DEF AnswerInv, IInv
<1> QED
  BY <1>1, AnswersInvariant, PTL

\* Every update of an envelope that is legible, new and within the limit is among those that
\* are recorded, projected and dispatched, and the answers are true in every other respect
\* that the run checks (handleWebhook, normalizeWebhookEnvelope).
THEOREM AnswersAreRight == Spec => []AnswersAreTrue
<1>1. AnswerInv => AnswersAreTrue
  <2> SUFFICES ASSUME AnswerInv PROVE AnswersAreTrue
    OBVIOUS
  <2>1. EnvelopesAreRead
    <3> SUFFICES ASSUME NEW d \in Delivery, stage[d] # "new"
                 PROVE  IsReading(envelope[d], Legible(envelope[d]), body[d],
                                  Normalize(envelope[d]).limitHit)
      BY DEF EnvelopesAreRead
    <3>1. envelope[d] \in Envelopes /\ body[d] = Normalize(envelope[d]).updates
      BY DEF AnswerInv, Local, GateInv
    <3>2. envelope[d] \in Seq(Entry)
      BY <3>1, WebhookAssumption
    <3> QED
      BY <3>1, <3>2, NormalizerIsRight
  <2> QED
    BY <2>1, OkMeansDone, RefusalsAreAlike DEF AnswerInv, IInv, AnswersAreTrue
<1> QED
  BY <1>1, AnswersInvariant, PTL

-----------------------------------------------------------------------------
(* The conversation window *)

LEMMA MaxIsGreatest ==
  ASSUME NEW S, \E x \in S : \A y \in S : x >= y
  PROVE  Max(S) \in S /\ \A y \in S : Max(S) >= y
BY DEF Max

LEMMA BoundedHaveMax ==
  ASSUME NEW S \in SUBSET Int, S # {}, NEW bound \in Int, \A x \in S : x <= bound
  PROVE  Max(S) \in S /\ \A y \in S : Max(S) >= y
<1> DEFINE R == OpToRel(<, Nat)
           T == {bound - x : x \in S}
<1>1. IsWellFoundedOn(R, Nat)
  BY NatLessThanWellFounded
<1>2. \A x, y \in Nat : y < x => <<y, x>> \in R
  BY DEF OpToRel
<1>3. T \subseteq Nat /\ T # {}
  <2>1. \A x \in S : bound - x \in Nat
    OBVIOUS
  <2> QED
    BY <2>1
<1> HIDE DEF R
<1>4. \E t \in T : \A y \in T : ~ (<<y, t>> \in R)
  <2> HIDE DEF T
  <2> QED
    BY <1>1, <1>3, WFMin
<1>5. PICK x \in S : \A y \in T : ~ (<<y, bound - x>> \in R)
  BY <1>4
<1>6. ASSUME NEW y \in S PROVE x >= y
  <2>1. ~ (bound - y < bound - x)
    BY <1>2, <1>3, <1>5
  <2>2. x \in Int /\ y \in Int
    OBVIOUS
  <2> QED
    BY <2>1, <2>2
<1> QED
  BY <1>6, MaxIsGreatest

\* A delivery that projects has read a clock, and a message is stored at its own time
\* or at what a clock showed then.
ReceiptInv == \A d \in Delivery : stage[d] = "projecting" => receipt[d] \in Clock

StoredAt(u, times) == times = {} \/ \E t \in Clock : times = {Min({Sent[u], t})}

TimesInv == \A u \in Message : StoredAt(u, stored[u])

LEMMA ReceiptStep ==
  ASSUME TypeOK, ReceiptInv, [Next]_vars PROVE ReceiptInv'
<1>1. ASSUME NEW d \in Delivery, NEW e \in Envelopes, Post(d, e) PROVE ReceiptInv'
  BY <1>1 DEF Post, ReceiptInv, TypeOK
<1>2. ASSUME NEW d \in Delivery, PostAgain(d) PROVE ReceiptInv'
  BY <1>2 DEF PostAgain, ReceiptInv, TypeOK
<1>3. ASSUME NEW d \in Delivery, NEW u \in Update,
             \/ Record(d, u) \/ Project(d, u) \/ Dispatch(d, u)
             \/ \E commits \in BOOLEAN : RecordThrows(d, u, commits) \/ ProjectThrows(d, u, commits)
      PROVE  ReceiptInv'
  BY <1>3 DEF Record, Project, Dispatch, RecordThrows, ProjectThrows, Takes, ReceiptInv
<1>4. ASSUME NEW d \in Delivery, AllRecorded(d) PROVE ReceiptInv'
  BY <1>4 DEF AllRecorded, ReadsClock, Turns, ReceiptInv, TypeOK
<1>5. ASSUME NEW d \in Delivery, AllProjected(d) PROVE ReceiptInv'
  BY <1>5 DEF AllProjected, Turns, ReceiptInv, TypeOK
<1>6. ASSUME NEW d \in Delivery, Respond(d) PROVE ReceiptInv'
  BY <1>6 DEF Respond, ReceiptInv, TypeOK
<1>7. ASSUME NEW S \in SUBSET InFlight, Crash(S) PROVE ReceiptInv'
  BY <1>7 DEF Crash, ReceiptInv, TypeOK
<1>8. CASE UNCHANGED vars
  BY <1>8 DEF vars, ReceiptInv
<1> QED
  BY <1>1, <1>2, <1>3, <1>4, <1>5, <1>6, <1>7, <1>8 DEF Next, Step, Terminated

LEMMA ProjectsAMessage ==
  ASSUME NEW u \in Message, StoredAt(u, stored[u]), NEW now \in Clock
  PROVE  StoredAt(u, Projects(u, now))
BY DEF Projects, EventTimes, StoredAt

LEMMA TimesStep ==
  ASSUME TypeOK, ReceiptInv, TimesInv, [Next]_vars PROVE TimesInv'
<1>1. ASSUME UNCHANGED stored PROVE TimesInv'
  BY <1>1 DEF TimesInv, StoredAt
<1>2. ASSUME NEW d \in Delivery, NEW v \in Update,
             Project(d, v) \/ \E commits \in BOOLEAN : ProjectThrows(d, v, commits)
      PROVE  TimesInv'
  <2>1. \/ UNCHANGED stored
        \/ v \in Projected /\ stored' = [stored EXCEPT ![v] = Projects(v, receipt[d])]
    BY <1>2 DEF Project, ProjectThrows
  <2>2. receipt[d] \in Clock
    BY <1>2 DEF Project, ProjectThrows, Takes, ReceiptInv
  <2>3. stored \in [Projected -> SUBSET Int] /\ Message \subseteq Projected
    BY DEF TypeOK, Projected
  <2>4. ASSUME v \in Projected, stored' = [stored EXCEPT ![v] = Projects(v, receipt[d])],
               NEW u \in Message
        PROVE  StoredAt(u, stored'[u])
    <3>1. CASE u = v
      <4>1. stored'[u] = Projects(u, receipt[d])
        BY <2>3, <2>4, <3>1
      <4> QED
        BY <2>2, <4>1, ProjectsAMessage DEF TimesInv
    <3>2. CASE u # v
      BY <2>3, <2>4, <3>2 DEF TimesInv
    <3> QED
      BY <3>1, <3>2
  <2>5. ASSUME v \in Projected, stored' = [stored EXCEPT ![v] = Projects(v, receipt[d])]
        PROVE  TimesInv'
    BY <2>4, <2>5 DEF TimesInv, StoredAt
  <2> QED
    BY <1>1, <2>1, <2>5
<1>3. ASSUME NEW d \in Delivery, NEW u \in Update,
             \/ Record(d, u) \/ Dispatch(d, u)
             \/ \E commits \in BOOLEAN : RecordThrows(d, u, commits)
      PROVE  UNCHANGED stored
  BY <1>3 DEF Record, Dispatch, RecordThrows, storeVars
<1>4. ASSUME NEW d \in Delivery,
             \/ \E e \in Envelopes : Post(d, e)
             \/ PostAgain(d) \/ AllRecorded(d) \/ AllProjected(d) \/ Respond(d)
      PROVE  UNCHANGED stored
  BY <1>4 DEF Post, PostAgain, AllRecorded, AllProjected, Turns, Respond, storeVars
<1>5. ASSUME NEW S \in SUBSET InFlight, Crash(S) PROVE UNCHANGED stored
  BY <1>5 DEF Crash, storeVars
<1>6. ASSUME UNCHANGED vars PROVE UNCHANGED stored
  BY <1>6 DEF vars, storeVars
<1> QED
  BY <1>1, <1>2, <1>3, <1>4, <1>5, <1>6 DEF Next, Step, Terminated

LEMMA ClockHasEnds ==
  /\ Slowest \in Clock /\ Max(Clock) \in Clock /\ Clock \subseteq Int
  /\ \A t \in Clock : Slowest <= t /\ t <= Max(Clock)
<1>1. Clock \subseteq Int /\ \E slow, fast \in Clock : \A t \in Clock : slow <= t /\ t <= fast
  BY WebhookAssumption
<1>2. PICK slow, fast \in Clock : \A t \in Clock : slow <= t /\ t <= fast
  BY <1>1
<1>3. /\ \E x \in Clock : \A y \in Clock : x <= y
      /\ \E x \in Clock : \A y \in Clock : x >= y
  BY <1>1, <1>2
<1>4. Max(Clock) \in Clock /\ \A t \in Clock : Max(Clock) >= t
  BY <1>3, MaxIsGreatest
<1>5. Slowest \in Clock /\ \A t \in Clock : Slowest <= t
  BY <1>3, MinIsLeast DEF Slowest
<1> QED
  BY <1>1, <1>4, <1>5

LEMMA LesserOfTwo ==
  ASSUME NEW a \in Int, NEW b \in Int
  PROVE  /\ Min({a, b}) \in Int /\ Min({a, b}) <= a /\ Min({a, b}) <= b
         /\ \A c \in Int : c <= b => Min({a, c}) <= Min({a, b})
<1>1. ASSUME NEW c \in Int
      PROVE  Min({a, c}) \in {a, c} /\ Min({a, c}) <= a /\ Min({a, c}) <= c
  <2>1. \E x \in {a, c} : \A y \in {a, c} : x <= y
    BY SMT
  <2> QED
    BY <2>1, MinIsLeast
<1>2. Min({a, b}) \in {a, b} /\ Min({a, b}) <= a /\ Min({a, b}) <= b
  BY <1>1
<1>3. ASSUME NEW c \in Int, c <= b PROVE Min({a, c}) <= Min({a, b})
  BY <1>1, <1>2, <1>3
<1> QED
  BY <1>2, <1>3

LEMMA GreaterOfTwo ==
  ASSUME NEW a \in Int, NEW b \in Int
  PROVE  Max({a, b}) \in {a, b} /\ Max({a, b}) >= a /\ Max({a, b}) >= b
<1>1. \E x \in {a, b} : \A y \in {a, b} : x >= y
  BY SMT
<1> QED
  BY <1>1, MaxIsGreatest

LEMMA SentIsATime == \A u \in Message : Sent[u] \in Int
<1>1. Sent \in [Message \cup Status -> Int]
  BY WebhookAssumption
<1> QED
  BY <1>1

\* What is stored of a message lies between what the slowest clock allows and its own time.
LEMMA StoredBetween ==
  ASSUME TimesInv, NEW u \in Message, NEW x \in stored[u]
  PROVE  /\ x \in Int /\ x <= Sent[u] /\ x <= Max(Clock)
         /\ Min({Sent[u], Slowest}) \in Int /\ Min({Sent[u], Slowest}) <= x
<1>1. PICK t \in Clock : stored[u] = {Min({Sent[u], t})}
  BY DEF TimesInv, StoredAt
<1>2. Sent[u] \in Int
  BY SentIsATime
<1>3. /\ t \in Int /\ Slowest \in Int /\ Slowest <= t /\ t <= Max(Clock) /\ Max(Clock) \in Int
  BY ClockHasEnds
<1>4. x = Min({Sent[u], t})
  BY <1>1
<1>5. x \in Int /\ x <= Sent[u] /\ x <= t
  BY <1>2, <1>3, <1>4, LesserOfTwo
<1>6. Min({Sent[u], Slowest}) \in Int /\ Min({Sent[u], Slowest}) <= x
  BY <1>2, <1>3, <1>4, LesserOfTwo
<1> QED
  BY <1>3, <1>5, <1>6

LEMMA WindowFollows ==
  ASSUME TypeOK, TimesInv, OnlyAuthenticUpdates
  PROVE  WindowAgrees
<1>1. Inbound \in SUBSET Int /\ \A x \in Inbound : \E u \in Message : x \in stored[u]
  BY StoredBetween DEF Inbound
<1>2. \A x \in Inbound : x <= Max(Clock)
  BY <1>1, StoredBetween
<1>3. Max(Clock) \in Int /\ Slowest \in Int
  BY ClockHasEnds
<1>4. Inbound # {} => Max(Inbound) \in Inbound /\ \A y \in Inbound : Max(Inbound) >= y
  BY <1>1, <1>2, <1>3, BoundedHaveMax
<1>5. WindowMs \in Nat \ {0}
  BY WindowAssumption
<1>6. ASSUME NEW u \in Message, stored[u] # {} PROVE u \in Arrived
  BY <1>6, WebhookAssumption DEF OnlyAuthenticUpdates, Arrived, Projected
<1> SUFFICES ASSUME NEW now \in Horizon
             PROVE  /\ Remaining(Inbound, now) <= WindowMs
                    /\ Open(Inbound, now) => \E u \in Arrived : now < Sent[u] + WindowMs
                    /\ ~ Open(Inbound, now) =>
                         \A u \in Message : stored[u] # {} => now >= Min({Sent[u], Slowest}) + WindowMs
  BY DEF WindowAgrees
<1>7. now \in Int
  BY <1>3, <1>5 DEF Horizon
<1>8. CASE Inbound = {}
  <2>1. Remaining(Inbound, now) = 0
    BY <1>8 DEF Remaining
  <2>2. \A u \in Message : stored[u] = {}
    BY <1>8 DEF Inbound
  <2> QED
    BY <1>5, <2>1, <2>2 DEF Open
<1>9. CASE Inbound # {}
  <2> DEFINE last == Max(Inbound)
  <2>1. last \in Int /\ last \in Inbound /\ \A y \in Inbound : last >= y
    BY <1>1, <1>4, <1>9
  <2>2. Remaining(Inbound, now) =
          IF last > now THEN WindowMs ELSE Max({0, WindowMs - (now - last)})
    BY <1>9 DEF Remaining
  <2> HIDE DEF last
  <2>3. PICK v \in Message : last \in stored[v]
    BY <1>1, <2>1
  <2>4. v \in Arrived /\ last <= Sent[v] /\ Sent[v] \in Int
    BY <1>6, <2>3, SentIsATime, StoredBetween
  <2>5. CASE last > now
    <3>1. Remaining(Inbound, now) = WindowMs
      BY <2>2, <2>5
    <3>2. now < Sent[v] + WindowMs
      BY <1>5, <1>7, <2>1, <2>4, <2>5
    <3> QED
      BY <1>5, <2>4, <3>1, <3>2 DEF Open
  <2>6. CASE ~ (last > now)
    <3> DEFINE rest == WindowMs - (now - last)
    <3>1. rest \in Int /\ rest <= WindowMs
      BY <1>5, <1>7, <2>1, <2>6
    <3>2. Remaining(Inbound, now) = Max({0, rest})
      BY <2>2, <2>6
    <3>3. Remaining(Inbound, now) \in {0, rest} /\ Remaining(Inbound, now) >= rest
      <4> HIDE DEF rest
      <4>1. 0 \in Int
        OBVIOUS
      <4>2. Max({0, rest}) \in {0, rest} /\ Max({0, rest}) >= rest
        BY <3>1, <4>1, GreaterOfTwo, Zenon
      <4> QED
        BY <3>2, <4>2
    <3>4. Remaining(Inbound, now) <= WindowMs
      BY <1>5, <3>1, <3>3
    <3>5. Open(Inbound, now) => now < Sent[v] + WindowMs
      BY <1>5, <1>7, <2>1, <2>4, <3>1, <3>3 DEF Open
    <3>6. ASSUME ~ Open(Inbound, now), NEW u \in Message, stored[u] # {}
          PROVE  now >= Min({Sent[u], Slowest}) + WindowMs
      <4>1. PICK x \in stored[u] : TRUE
        BY <3>6
      <4>2. x \in Inbound
        BY <4>1 DEF Inbound
      <4>3. /\ x \in Int /\ Min({Sent[u], Slowest}) \in Int /\ Min({Sent[u], Slowest}) <= x
        BY <4>1, StoredBetween
      <4>4. last >= x
        BY <2>1, <4>2
      <4>5. rest <= 0
        BY <3>1, <3>3, <3>6 DEF Open
      <4> QED
        BY <1>5, <1>7, <2>1, <4>3, <4>4, <4>5
    <3> QED
      BY <2>4, <3>4, <3>5, <3>6
  <2> QED
    BY <2>5, <2>6
<1> QED
  BY <1>8, <1>9

\* Whatever clocks received the messages, in whatever order: the window is never said to be
\* open after that of the last message, nor closed before a slow clock would close it
\* (getConversationWindowState over what recordInboundProjection has stored).
THEOREM WindowIsTrue == Spec => []WindowAgrees
<1>1. Init => ReceiptInv /\ TimesInv
  BY DEF Init, ReceiptInv, TimesInv, StoredAt, Projected
<1>2. AnswerInv /\ ReceiptInv /\ TimesInv /\ [Next]_vars => ReceiptInv' /\ TimesInv'
  BY ReceiptStep, TimesStep DEF AnswerInv, IInv
<1>3. AnswerInv /\ TimesInv => WindowAgrees
  BY WindowFollows DEF AnswerInv, IInv
<1> QED
  BY <1>1, <1>2, <1>3, AnswersInvariant, PTL DEF Spec

=============================================================================
