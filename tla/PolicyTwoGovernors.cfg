SPECIFICATION Spec
CONSTANTS
  anna = anna
  ben = ben
  P = P
  F = F
  Q = Q
  cap = cap
  std = std
  ctl = ctl
  c1 = c1
  c2 = c2
  Caller = {c1, c2}
  Actor = {anna, ben}
  Manager = {ben}
  Override = {}
  Policy = {P, F, Q}
  Prior <- PriorOf
  Capability = {cap}
  Standard = {std}
  Control = {ctl}
  ParentOf <- Parent
  NoPolicy = NoPolicy
  NoActor = NoActor
  Start <- Empty
  Faults = {"pending"}
  MaxCalls = 2

INVARIANT NeverTwoGovernors
CHECK_DEADLOCK FALSE
