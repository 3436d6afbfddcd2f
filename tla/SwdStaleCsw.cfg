SPECIFICATION Spec
CONSTANTS
  MemSize = 16
  Page = 8
  TargetPage = 8
  Ranges <- MixedRanges
  Faults = {"refused"}
  MaxFaults = 1
INVARIANT WriteLands
