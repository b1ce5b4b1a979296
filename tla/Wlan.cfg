SPECIFICATION Spec
CONSTANTS
    d1 = d1
    d2 = d2
    Modules <- MCModules
    Scripted <- MCScripted
    Detectors <- MCDetectors
    MaxFds = 2
SYMMETRY Symmetry
INVARIANTS
    RoundSettles
    ConnectedAfterScript
CHECK_DEADLOCK FALSE
