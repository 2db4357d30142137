SPECIFICATION FairSpec
CONSTANTS
  c1 = c1
  c2 = c2
  c3 = c3
  k1 = k1
  k2 = k2
  p1 = p1
  p2 = p2
  Call = {c1, c2, c3}
  Key = {k1, k2}
  Payload = {p1, p2}
  NoCall = NoCall
  NoKey = NoKey
  NoPayload = NoPayload
  MaxSetbacks = 2
INVARIANTS
  AtMostOneAccepted
  AnswersHold
PROPERTIES
  ImplementsOnceOnlySend
  ClaimsResolve
