SPECIFICATION FairSpec
CONSTANTS
  mac_add = mac_add
  bar_code = bar_code
  upgrade_status = upgrade_status
  Ttys = 2
  OverReadLen = 8
  StartCount = 2
  RunCount = 4
  Payloads <- MCOne
  Extras <- MCExtras
  Mac = mac_add
  Bar = bar_code
  Status = upgrade_status
  Default = default
  Capacity = 8
  Cut = Cut
  Nothing = Nothing
  MaxCuts = 1
  MaxFaults = 0
  MaxSends = 3
  MaxSplits = 1
INVARIANTS
  StoredWasAnnounced
PROPERTIES
  StartIsServed
  DaemonEnds
CHECK_DEADLOCK FALSE
