SPECIFICATION FairSpec
CONSTANTS
  r1 = r1
  r2 = r2
  r3 = r3
  p1 = p1
  x = x
  y = y
  A = A
  B = B
  C = C
  Run = {r1, r2, r3}
  Poller = {p1}
  Celex = {x, y}
  ShortName = {A, B, C}
  Asks <- Requests
  MaxInFlight = 2
  Faults = {"store down", "lost ack", "no thread", "graph down", "crash"}
  MaxCrashes = 1
  None = None
INVARIANT SlotsHold
PROPERTIES OneOutcome MergedOnce KeepsLedger RunsEnd
CHECK_DEADLOCK FALSE
