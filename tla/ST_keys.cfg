CONSTANTS
  c1 = c1
  c2 = c2
  redirect = redirect
  persistence = persistence
  v1 = v1
  v2 = v2
  Services = {redirect, persistence}
  Calls = {c1, c2}
  ClientOf <- MCClientOf
  ServerOf <- MCServerOf
  AllowedCallers <- MCAllowedCallers
  Kids = {v1, v2}
  KidOf <- MCKidOf
  MaxKey = 3
  MaxTime = 1
  ttlSeconds = 1
  refreshSkewSeconds = 0
  NoToken = NoToken
  NoCall = NoCall
  Env = {"rotate", "issuer", "restart", "retry"}
SPECIFICATION FairSpec
INVARIANT TypeOK
INVARIANT RequestIsShared
INVARIANT CurrentKeyIsAccepted
INVARIANT ExpiredOnlyIfSlow
PROPERTY OldKeysDieOut
PROPERTY StepsRunOut
PROPERTY CallsEnd
