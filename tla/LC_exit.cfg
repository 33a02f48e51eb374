CONSTANTS
  q1 = q1
  q2 = q2
  Requests = {q1, q2}
  Entries = {"create"}
  Env = {}
CHECK_DEADLOCK FALSE
SPECIFICATION Spec
INVARIANT GracefulExit
