SPECIFICATION PartsSpec
CONSTANTS
  u1 = u1
  u2 = u2
  d1 = d1
  Users = {u1, u2}
  LebSize = 2
  BlockCnt = 2
  Starts = {0, 1, 2, 3, 4, 5}
  Lengths = {0, 3}
  Unsure = Unsure
  Nobody = Nobody
  MaxCalls = 3
  MaxFaults = 1
  Foreign = Foreign
  Free = Free
  NoTable = NoTable
  NoMtd = NoMtd
  NoName = NoName
  Old = Old
  Devices = {d1}
  Vols = {0, 1}
  SlotMax = 2
  Sizes = {1, 2}
  DeviceBlocks = 2
  FdMax = 4
  TakenFds = {0}
  MtdNames <- MCMtdNames
  MtdMax = 2
  DevMax = 3
  Partitions = {"RECOVERY"}
  NameLen <- MCNameLen
  EraseSize = 3
  MtdBlocks = 4
  Recovery = "RECOVERY"
  Images <- MCImages
  BadBlocks <- MCBadBlocks
  Found = {TRUE, FALSE}
  MaxStarts = 2
SYMMETRY Symmetry
INVARIANTS
  Sharing
  KeptIntact
  HandlesHoldTheirs
  TableAgrees
  ReadsBack
PROPERTIES
  ReadsItsPlace
  CountsWritten
  OnlyZeroIsStruck
  DetachesNamed
  ImageNotLost
CONSTRAINT Kept
