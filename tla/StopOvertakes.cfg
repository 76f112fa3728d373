\* A stop is served before the motion that was requested first.
SPECIFICATION HSpec
CONSTANTS
    Clients = {a, b}
    Nobody = Nobody
INVARIANT StopWins
CHECK_DEADLOCK FALSE
