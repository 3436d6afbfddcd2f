SPECIFICATION FairSpec
CONSTANTS
  Sectors = 3
  Packs = 3
  Data = {d1}
  Erased = Erased
  Junk = Junk
  NoCmd = NoCmd
  NTags = 3
  MqSize = 10
  Cmds <- RecoverCmds
  MaxResets = 0
  EpRace = TRUE
CHECK_DEADLOCK FALSE
PROPERTY ArmingEnds
