CONSTANTS
  a1 = a1
  a2 = a2
  a3 = a3
  ka = ka
  i1 = i1
  i2 = i2
  i3 = i3
  Requests <- MCRequests
  IdemKeys = {ka}
  KeyOf <- MCSameKey
  Instances = {i1}
  InstOf <- MCShared
  maxConcurrentRequests = 1
  MaxAttempts = 2
  Env = {}
SPECIFICATION Spec
INVARIANT OneAtATime
