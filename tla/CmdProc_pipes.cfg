SPECIFICATION Spec
CONSTANTS
    PipeSize = 2
    MaxOutput = 4
INVARIANTS TypeOK Collected OverflowHangs
PROPERTIES FittingReturns
CHECK_DEADLOCK FALSE
