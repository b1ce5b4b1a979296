SPECIFICATION Spec
CONSTANTS
  status = status
  mac = mac
  bar = bar
  short = short
  long = long
  Names <- MCNames
  Settable <- MCSettable
  Values <- MCValues
  Size <- MCSize
  Capacity = 4
  Cut = Cut
  Nothing = Nothing
  Factory <- MCFactory
  MaxCuts = 2
  MaxFaults = 1
SYMMETRY Symmetry
INVARIANTS
  FlashGood
  AckedIsDurable
