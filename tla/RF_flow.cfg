CONSTANTS
  q1 = q1
  q2 = q2
  Requests = {q1}
  Entries = {"redirect", "create", "health"}
  Env = {"crash", "hangup"}
CHECK_DEADLOCK FALSE
SPECIFICATION FairSpec
INVARIANT TypeOK
INVARIANT ExitDropsNobody
INVARIANT AnswersAreOwn
PROPERTY ImplementsLifecycle
PROPERTY StepsRunOut
PROPERTY EveryRequestEnds
PROPERTY DrainEnds
