SPECIFICATION AppSpec
CONSTANTS
  DLSize = 2
  FlashSize = 6
  FileSizes <- MCFileSizes
  Algos = {}
  Files <- MCFiles
  Pages = {0, 3}
  MaxMisreads = 1
  Faults = {"dropped", "refused", "unheard", "read", "algo"}
  MaxFaults = 2
INVARIANTS TypeOK ParsedRight Programmed Bounded RightCall
PROPERTIES QuietRam Terminates ImplementsDownload
