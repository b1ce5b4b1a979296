SPECIFICATION Spec
CONSTANTS
  kernel = kernel
  recovery = recovery
  system = system
  user = user
  boot = boot
  BadBlocks <- MCBadBlocks
  Mtds = {kernel, boot, recovery}
  Ubis = {system, user}
  Kernel = kernel
  Recovery = recovery
  NameLen <- MCNameLens
  EraseSize = 2
  Blocks = 3
  NoName = NoName
  Unsure = Unsure
  Old = Old
  Tables <- MCTables
  VolSizes <- MCVolSizes
  CmdSize = 4
  VolMax = 3
  Chunks = {2, 5}
  Trailer = 1
  MaxRounds = 1
  MaxFaults = 0
INVARIANT ImageInPlace
CHECK_DEADLOCK FALSE
