SPECIFICATION FairSpec
CONSTANTS
  Graph = {g1, g2}
  Worker = {w1, w2}
  NoWorker = NoWorker
  StartMayFail = TRUE
  MaxAttempt = 3
  MaxFailures = 3
  MaxRegistrations = 3
INVARIANT PendingIsServed
PROPERTIES GraphsLeaveUnlessLost StopEndsEveryThread
CHECK_DEADLOCK FALSE
