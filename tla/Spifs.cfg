SPECIFICATION Spec
CONSTANTS
  Names = {a, b, c}
  PageNum = 3
  PageLen = 2
  TocPages = 2
  EntriesPerPage = 3
  Dirs = {"d1"}
  Lens = {0, 3}
  Ranges <- MCRanges
  MaxCalls = 5
  MaxFaults = 1
  MaxCrashes = 1
SYMMETRY MCSymmetry
CHECK_DEADLOCK FALSE
INVARIANT TypeOK
INVARIANT CrashAtomic
INVARIANT DataIntact
INVARIANT Durable
INVARIANT DirScan
