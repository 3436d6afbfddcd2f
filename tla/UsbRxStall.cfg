SPECIFICATION FairSpec
CONSTANTS
  Sectors = 2
  Packs = 2
  Data = {d1, d2}
  Erased = Erased
  Junk = Junk
  NoCmd = NoCmd
  NTags = 3
  MqSize = 2
  Cmds <- StallCmds
  MaxResets = 0
  EpRace = FALSE
CHECK_DEADLOCK FALSE
PROPERTY RxStallTakesEffect
