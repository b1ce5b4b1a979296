SPECIFICATION PartsSpec
CONSTANTS
  k1 = k1
  k2 = k2
  Keys = {k1, k2}
  Stray = Stray
  Dummy = Dummy
  None = None
  Gaps = {3, 6}
  First = 5
  Second = 200
  Following = 33
  MaxSamples = 1
  Numbers = {0, 1, 2}
  Ttys = 2
  Left <- MCLeft
  Volumes = {33, 161}
  Noise = {32, 48}
  Followed = {"setmusmode"}
  Backlog = 3
  MaxFrames = 3
  MaxFaults = 1
  Width = 3
  Height = 2
  line_length = 16
  fb_mem_offset = 4
  Paints <- MCPaints
  SpiWords = {200, 42289}
  MaxBreaks = 1
  Word = 16
  Wide = 64
  Lengths = {0, 1, 3, 5}
  MaxJump = 3
  MaxTime = 40
  Channels = {1, 2}
  Times = {1, 2}
  Lamps = 2
  Colours <- MCColours
  Chips = {"MT7601", "8188ETV"}
  RadioChannels = {7, 8}
  Networks = {"near", "fast"}
  Frequency <- MCFrequency
  Cells <- MCCells
  MaxCells = 3
  NameFirst = {TRUE, FALSE}
  Readers = {"caller", "detector"}
SYMMETRY Symmetry
INVARIANTS
  SentIsRead
  DamageIsContained
  ListedAsReported
  DisplayRight
  PinsAreUnderstood
  CommandsTakeEffect
  NumbersAreOwn
PROPERTIES
  PressesReported
  DelayKept
CHECK_DEADLOCK FALSE
