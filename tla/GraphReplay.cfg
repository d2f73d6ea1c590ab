SPECIFICATION Spec
CONSTANTS
  Graph = {g1}
  Faults = {"wipe", "corrupt", "bad checkpoint", "refused", "stop"}
  NetsEmpty <- EmptyAfterTwo
  PageSize = 2
  MaxEntries = 2
  MaxHead = 5
  MaxCrashes = 3
  MaxOutages = 2

INVARIANTS OpenIsWhole RebuiltIsTheLog FailureHasACause
PROPERTIES LoggedOnWholeGraph NothingPastUnverified ImplementsGraphLog
CHECK_DEADLOCK FALSE
