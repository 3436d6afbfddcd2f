SPECIFICATION Spec
CONSTANTS
  MemSize = 16
  Page = 8
  TargetPage = 8
  Ranges <- MCRanges
  Faults = {"dropped", "unheard"}
  MaxFaults = 2
INVARIANTS TypeOK CacheCoherent WriteLands ReadTrue Confined
