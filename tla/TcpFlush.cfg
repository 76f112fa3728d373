\* A flush of a connection whose peer has closed.
SPECIFICATION Spec
CONSTANTS
    Roles <- ServerOnly
    Socks = {s1}
    Ports <- OnePort
    Buff = 2
    Lengths <- LiveLengths
    Timeouts <- LiveTimeouts
    MaxBytes = 1
PROPERTY FlushReturns
CHECK_DEADLOCK FALSE
