SPECIFICATION Spec
CONSTANTS
  Graph = {g1}
  Faults = {}
  NetsEmpty <- EmptyAfterTwo
  PageSize = 2
  MaxEntries = 1
  MaxHead = 2
  MaxCrashes = 1
  MaxOutages = 1
INVARIANT DealtWithIsOpen
CHECK_DEADLOCK FALSE
