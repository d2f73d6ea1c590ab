SPECIFICATION Spec
CONSTANTS
  w1 = w1
  r1 = r1
  Writer = {w1}
  Repairer = {r1}
  NoThread = NoThread
  Graph = {1, 2}
  Faults = {"graph down", "log down", "write fails", "refused", "conflict", "replay", "crash"}
  MaxAttempts = 2
  UnitAttempts = 2
  MaxSets = 2
  MaxLog = 2
INVARIANTS SetsVisibleTogether NoLockCycle
PROPERTIES WholeWhenLogged ImplementsGraphLog
CHECK_DEADLOCK FALSE
