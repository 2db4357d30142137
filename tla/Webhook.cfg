SPECIFICATION MCFairSpec
CONSTANTS
  d1 = d1
  d2 = d2
  message = message
  status = status
  read = read
  keyless = keyless
  deep = deep
  noId = noId
  Delivery = {d1, d2}
  Update = {message, status, read, keyless, deep}
  Item = {message, status, read, keyless, deep, noId}
  Malformed = {noId}
  UpdateId <- MCUpdateId
  MaxEvents = 2
  Keyless = {keyless}
  Deep = {deep}
  Message = {message}
  Status = {status, read}
  Sent <- MCSent
  Clock = {1, 2}
  WindowMs = 2
  Tolerance = 1
  Envelopes <- MCEnvelopes
  Requests <- MCRequests
  MaxBodyBytes = 2
  MaxSetbacks = 2
INVARIANTS
  DispatchedAtMostOnce
  AnswersAreTrue
  WindowAgrees
PROPERTIES
  ImplementsOnceOnlyInbox
  EveryUpdateIsHandled
