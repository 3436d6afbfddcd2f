SPECIFICATION Spec
CONSTANTS
  Sectors = 2
  Packs = 2
  Data = {d1, d2}
  Erased = Erased
  Junk = Junk
  NoCmd = NoCmd
  NTags = 3
  MqSize = 2
  Cmds <- StatusCmds
  MaxResets = 1
  EpRace = FALSE
CHECK_DEADLOCK FALSE
INVARIANT CswStatusIsCurrent
