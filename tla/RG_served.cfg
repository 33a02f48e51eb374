CONSTANTS
  q1 = q1
  q2 = q2
  q3 = q3
  q4 = q4
  Requests = {q1, q2, q3, q4}
  maxConcurrent = 2
  Env = {"throw", "stray", "hangup", "timeout"}
SPECIFICATION FairSpec
INVARIANT TypeOK
INVARIANT QueueImpliesFull
INVARIANT QueueIsWaiters
INVARIANT LimitUpToSurplus
INVARIANT NoPhantomSlots
INVARIANT WaitersAreBacked
PROPERTY ServedInOrder
PROPERTY ServedUnlessAllLeak
