SPECIFICATION FairSpec
CONSTANTS
  kernel = kernel
  recovery = recovery
  system = system
  user = user
  boot = boot
  BadBlocks <- MCBadBlocks
  Mtds = {kernel, boot, recovery}
  Ubis = {system, user}
  Kernel = kernel
  Recovery = recovery
  NameLen <- MCNameLen
  EraseSize = 2
  Blocks = 3
  NoName = NoName
  Unsure = Unsure
  Old = Old
  Tables <- MCTables
  VolSizes <- MCVolSizes
  CmdSize = 4
  VolMax = 3
  Chunks = {2, 5}
  Trailer = 1
  MaxRounds = 2
  MaxFaults = 1
INVARIANTS
  ImageInPlace
  CursorAgrees
  BootLoadsAll
PROPERTIES
  RunningSystemKept
  UpdateReturns
CHECK_DEADLOCK FALSE
