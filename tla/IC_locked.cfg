CONSTANTS
  a1 = a1
  a2 = a2
  a3 = a3
  ka = ka
  i1 = i1
  i2 = i2
  i3 = i3
  Requests <- MCRequests
  IdemKeys = {ka}
  KeyOf <- MCSameKey
  Instances = {i1, i2, i3}
  InstOf <- MCSeparate
  maxConcurrentRequests = 1
  MaxAttempts = 2
  Env = {"create", "hangup", "redis", "crash", "watchError"}
SPECIFICATION FairSpec
INVARIANT TypeOK
INVARIANT OneAtATime
INVARIANT LockAccounted
INVARIANT RepeatAfterStoreIsReplayed
INVARIANT TakenLocksExpire
PROPERTY ImplementsLock
PROPERTY LockIsFreedAgain
