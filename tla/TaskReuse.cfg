SPECIFICATION Spec
CONSTANTS
  all = all
  some = some
  Config = {all, some}
  RangesOf <- MCRangesOf
  SizeOf <- MCSizeOf
  Pages = 3
  MaxRuns = 3
  MaxChanges = 2
  MaxFaults = 2
INVARIANTS RowsExact DoneIsRight NothingLeftOver AllDoneMeansStored
CHECK_DEADLOCK FALSE
