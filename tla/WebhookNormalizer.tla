--------------------------- MODULE WebhookNormalizer ---------------------------
(***************************************************************************)
(* normalizeWebhookEnvelope() of packages/core: what the rest of the       *)
(* program gets to see of an envelope.                                     *)
(*                                                                         *)
(* An envelope is a sequence of entries, an entry of changes, a change of  *)
(* items (messages, then statuses; calls; groups; the one account event),  *)
(* which are what updates are made of.  An entry or change is legible when *)
(* its own fields (id, changes; field, value, phone_number_id) are.        *)
(***************************************************************************)
EXTENDS Naturals, Sequences, Functions

CONSTANTS
  Item,
  Malformed,     \* items without a safe id, or that are not what they should be
  UpdateId,      \* UpdateId[i]: the kind and updateId of the update made of i
  MaxEvents      \* maxEventsPerEnvelope

ASSUME NormalizerAssumption ==
  /\ Malformed \subseteq Item
  /\ Item \ Malformed \subseteq DOMAIN UpdateId
  /\ MaxEvents \in Nat \ {0}

Change == [legible : BOOLEAN, items : Seq(Item)]
Entry == [legible : BOOLEAN, changes : Seq(Change)]

\* The accumulator; of skipped and overflow, what they count.
Nothing == [updates |-> <<>>, skipped |-> 0, overflow |-> 0, limitHit |-> FALSE]

Skip(acc) == [acc EXCEPT !.skipped = @ + 1]
Beyond(acc) == [acc EXCEPT !.overflow = @ + 1, !.limitHit = TRUE]

Seen(acc, i) == \E j \in Range(acc.updates) : UpdateId[j] = UpdateId[i]

\* pushUpdate(): a duplicate is a duplicate beyond the limit too.
PushUpdate(acc, i) ==
  CASE Seen(acc, i) -> Skip(acc)
    [] ~ Seen(acc, i) /\ Len(acc.updates) >= MaxEvents -> Beyond(acc)
    [] OTHER -> [acc EXCEPT !.updates = Append(@, i)]

NormalizeItem(acc, i) ==
  CASE acc.limitHit -> Beyond(acc)
    [] ~ acc.limitHit /\ i \in Malformed -> Skip(acc)
    [] OTHER -> PushUpdate(acc, i)

\* The loop over the items of a change: what the accumulator is after k of them.
NormalizeItems(acc, items) ==
  LET after[k \in 0 .. Len(items)] ==
        IF k = 0 THEN acc ELSE NormalizeItem(after[k - 1], items[k])
  IN after[Len(items)]

\* Slip: what follows something illegible is not looked at.
NormalizeChangeToTheEnd(acc, c) ==
  IF c.legible /\ acc.skipped = 0 THEN NormalizeItems(acc, c.items) ELSE Skip(acc)

\* Past the limit a change counts as one, whatever it holds.
NormalizeChange(acc, c) ==
  CASE acc.limitHit -> Beyond(acc)
    [] ~ acc.limitHit /\ ~ c.legible -> Skip(acc)
    [] OTHER -> NormalizeItems(acc, c.items)

NormalizeChanges(acc, changes) ==
  LET after[m \in 0 .. Len(changes)] ==
        IF m = 0 THEN acc ELSE NormalizeChange(after[m - 1], changes[m])
  IN after[Len(changes)]

NormalizeEntry(acc, e) ==
  IF e.legible THEN NormalizeChanges(acc, e.changes) ELSE Skip(acc)

Normalize(envelope) ==
  LET after[n \in 0 .. Len(envelope)] ==
        IF n = 0 THEN Nothing ELSE NormalizeEntry(after[n - 1], envelope[n])
  IN after[Len(envelope)]

\* A place is the entry, the change and the item; these are the places of what can be read.
ItemAt(envelope, p) == envelope[p[1]].changes[p[2]].items[p[3]]
Places(envelope) ==
  UNION {UNION {{<<n, m, k>> : k \in DOMAIN envelope[n].changes[m].items} :
                  m \in {m \in DOMAIN envelope[n].changes : envelope[n].changes[m].legible}} :
           n \in {n \in DOMAIN envelope : envelope[n].legible}}
Legible(envelope) == {p \in Places(envelope) : ItemAt(envelope, p) \notin Malformed}

\* The order in which an envelope is read.
Precedes(p, q) ==
  \/ p[1] < q[1]
  \/ p[1] = q[1] /\ p[2] < q[2]
  \/ p[1] = q[1] /\ p[2] = q[2] /\ p[3] < q[3]

\* Of several items of a kind and id, the first.
Firsts(envelope, places) ==
  {p \in places : \A q \in places :
     UpdateId[ItemAt(envelope, q)] = UpdateId[ItemAt(envelope, p)] => ~ Precedes(q, p)}

\* What there should be of these places: an update for each first, in their order, as far
\* as the limit reaches; and it is said when it does not reach all of them.
IsReading(envelope, places, updates, limitHit) ==
  LET firsts == Firsts(envelope, places)
  IN \E at \in [DOMAIN updates -> firsts] :
       LET rest == firsts \ Range(at)
       IN /\ \A k \in DOMAIN updates : updates[k] = ItemAt(envelope, at[k])
          /\ \A j, k \in DOMAIN updates : j < k => Precedes(at[j], at[k])
          /\ Len(updates) <= MaxEvents
          /\ rest # {} => Len(updates) = MaxEvents
          /\ \A p \in rest, k \in DOMAIN updates : Precedes(at[k], p)
          /\ limitHit <=> rest # {}
=============================================================================
