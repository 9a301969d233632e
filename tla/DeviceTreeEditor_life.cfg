SPECIFICATION Spec
CONSTANTS
    Texts <- ShortTexts
    MaxConfigured = 2
INVARIANTS TypeOK Partitioned Painted NoColorLeft
CHECK_DEADLOCK FALSE
