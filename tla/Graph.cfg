SPECIFICATION FairSpec
CONSTANTS
  g = g
  p = p
  Callers = {g, p}
  Pagers = {g}
  Full = 2
  Token = 2
  MaxBacks = 1
  MaxForwards = 1
  Retries = 1
  MaxPages = 2
INVARIANTS
  AttemptsAreCounted
  PostsLandOnce
  PagesAreAccountedFor
PROPERTIES
  ImplementsTokenBucket
  AbortStops
  EveryCallSettles
CHECK_DEADLOCK FALSE
