SPECIFICATION FairSpec
CONSTANTS
  c1 = c1
  c2 = c2
  getvolume = getvolume
  setvolume = setvolume
  Unknown = Unknown
  Nobody = Nobody
  Callers = {c1, c2}
  Commands = {getvolume, setvolume}
  MaxCalls = 2
  MaxEvents = 0
  MaxSpurious = 0
CHECK_DEADLOCK FALSE
PROPERTIES
  CallReturns
  DeInitReturns
  SlotSpec
