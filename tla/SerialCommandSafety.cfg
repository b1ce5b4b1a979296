SPECIFICATION Spec
CONSTANTS
  c1 = c1
  c2 = c2
  getvolume = getvolume
  setvolume = setvolume
  Unknown = Unknown
  Nobody = Nobody
  Callers = {c1, c2}
  Commands = {getvolume, setvolume}
  MaxCalls = 2
  MaxEvents = 1
  MaxSpurious = 1
CHECK_DEADLOCK FALSE
SYMMETRY Symmetry
INVARIANTS
  SerialInv
  OwnAnswer
