SPECIFICATION FairSpec
CONSTANTS
  w1 = w1
  w2 = w2
  o1 = o1
  Writer = {w1}
  Operator = {o1}
  Reconciler = Reconciler
  NoThread = NoThread
  Faults = {"graph down", "refused", "ack lost"}
  MaxAttempts = 1
  MaxEntries = 1
  MaxHead = 2
PROPERTIES CallsEnd EventuallyApplied ImplementsGraphLog
