SPECIFICATION FairSpec
CONSTANTS
  Runs = {r1, r2}
  Requests = {q1, q2}
  MaxStages = 2
  MaxPolls = 1
  Nobody = Nobody
CHECK_DEADLOCK FALSE
INVARIANTS StoppedOnlyOnRequest 
PROPERTIES StagesEnd
