SPECIFICATION Spec
CONSTANTS
  mac_add = mac_add
  bar_code = bar_code
  upgrade_status = upgrade_status
  Ttys = 1
  OverReadLen = 8
  StartCount = 2
  RunCount = 6
  Payloads <- MCPayloads
  Extras <- MCShake
  Mac = mac_add
  Bar = bar_code
  Status = upgrade_status
  Default = default
  Capacity = 8
  Cut = Cut
  Nothing = Nothing
  MaxCuts = 1
  MaxFaults = 1
  MaxSends = 5
  MaxSplits = 0
CONSTRAINT Sparse
INVARIANTS
  StoreNeedsHandshake
  ToldIsStored
  PropFollowsStore
CHECK_DEADLOCK FALSE
