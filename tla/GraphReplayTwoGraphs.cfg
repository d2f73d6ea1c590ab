SPECIFICATION FairSpec
CONSTANTS
  Graph = {g1, g2}
  Faults = {"wipe", "corrupt", "bad checkpoint"}
  NetsEmpty <- EmptyAfterTwo
  PageSize = 1
  MaxEntries = 1
  MaxHead = 2
  MaxCrashes = 1
  MaxOutages = 1
PROPERTY StartupEnds
CHECK_DEADLOCK FALSE
