\* One socket of either file: what must eventually happen.
SPECIFICATION Spec
CONSTANTS
    Roles <- BothRoles
    Socks = {s1}
    Ports <- OnePort
    Buff = 2
    Lengths <- LiveLengths
    Timeouts <- LiveTimeouts
    MaxBytes = 1
PROPERTIES ReadReturns DisconnectNoticed OpenNotStuck
CHECK_DEADLOCK FALSE
