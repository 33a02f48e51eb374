CONSTANTS
  q1 = q1
  q2 = q2
  q3 = q3
  q4 = q4
  Requests = {q1, q2, q3}
  maxConcurrent = 2
  Env = {"hangup", "timeout"}
SPECIFICATION TimedSpec
PROPERTY WaitersAreServed
