SPECIFICATION Spec
CONSTANTS
  anna = anna
  ben = ben
  P = P
  F = F
  Q = Q
  cap = cap
  std = std
  ctl = ctl
  c1 = c1
  c2 = c2
  Caller = {c1, c2}
  Actor = {anna, ben}
  Manager = {ben}
  Override = {}
  Policy = {P, F, Q}
  Prior <- PriorOf
  Capability = {cap}
  Standard = {std}
  Control = {ctl}
  ParentOf <- Parent
  NoPolicy = NoPolicy
  NoActor = NoActor
  Start <- Starts
  Faults = {"outage", "pending", "audit down", "crash"}
  MaxCalls = 2
SYMMETRY Symmetry
INVARIANTS GovernedOnce RetiredBehindSuccessor AppliedRowsAreTrue
PROPERTY GovernanceMoves
CHECK_DEADLOCK FALSE
