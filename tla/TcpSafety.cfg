\* Two sockets of a server or of a client script; peers send two bytes, close and reset.
SPECIFICATION Spec
CONSTANTS
    Roles <- BothRoles
    Socks = {s1, s2}
    Ports <- SomePorts
    Buff = 2
    Lengths <- ReadLengths
    Timeouts <- ReadTimeouts
    MaxBytes = 2
INVARIANTS TypeOK NoLeak OffMeansGone
PROPERTY FlushDrains
SYMMETRY Symmetry
CHECK_DEADLOCK FALSE
