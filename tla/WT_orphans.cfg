CONSTANTS
  c1 = c1
  c2 = c2
  k1 = k1
  k2 = k2
  k3 = k3
  r1 = r1
  r2 = r2
  u1 = u1
  u2 = u2
  Creators <- MCCreators
  UrlOf <- MCUrlOf
  Keys <- MCKeys
  ShortKeys <- MCShortKeys
  Urls = {u1, u2}
  Readers = {r1, r2}
  NoKey = NoKey
  NoUrl = NoUrl
  NotFound = NotFound
  Failed = Failed
  Env = {"collision", "db", "refused", "crash", "redis", "upstream"}
SPECIFICATION Spec
INVARIANT PublishedIsStored
INVARIANT NoOrphanCache
INVARIANT FailedLeavesNothing
