CONSTANTS
  p1 = p1
  p2 = p2
  Requests = {p1, p2}
  limit = 1
  windowMs = 3
  Ttl = 9
  MaxClock = 5
  Env = {"redis", "crash"}
SPECIFICATION FairSpec
INVARIANT TypeOK
INVARIANT WindowBound
INVARIANT JudgedByRecent
INVARIANT KeyEnds
PROPERTY KeyForgotten
