SPECIFICATION Spec
CONSTANTS
    Mode = "virtual"
    Period = 10
    Fallback = 10
    Dts = {2, 3, 10, 15, 16}
    MaxPos = 6
    Threshold = 3
    MaxTroubles = 3
INVARIANTS TypeOK NothingUnasked
PROPERTIES CommandIsSent ArmedAgain
CHECK_DEADLOCK FALSE
