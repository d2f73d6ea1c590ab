SPECIFICATION Spec
CONSTANTS
  w1 = w1
  w2 = w2
  o1 = o1
  Writer = {w1, w2}
  Operator = {}
  Reconciler = Reconciler
  NoThread = NoThread
  Faults = {"graph down", "log down", "write fails", "refused", "crash"}
  MaxAttempts = 2
  MaxEntries = 2
  MaxHead = 2
SYMMETRY Symmetry
INVARIANTS MarkerTruthful AppliedStaysApplied CheckpointsExact PreconditionHoldsWhenLogged
PROPERTY AcceptedOnlyWhenApplied
