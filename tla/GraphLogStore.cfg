SPECIFICATION Spec
CONSTANTS
  s1 = s1
  s2 = s2
  Graph = {1, 2}
  Session = {s1, s2}
  NoSession = NoSession
  MaxEntries = 2
  MaxHead = 2
  MaxMinted = 3
SYMMETRY Symmetry
INVARIANTS GapFree SwapSetsWhole NeverRefused NoLockCycle
PROPERTY ImplementsGraphLog
CHECK_DEADLOCK FALSE
