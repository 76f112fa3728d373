\* A real robot, every fault, four interferences: bring-up and the hand-over of
\* the callbacks, what must never and what must eventually happen.
SPECIFICATION Spec
CONSTANTS
    FaultStates <- AllFaultStates
    MaxDisturbances = 4
    MaxEvents = 3
    Mode = "real"
    ConnectRetries = 2
    AccessRetries = 2
INVARIANTS
    TypeOK
    BootFlagsTruthful
    GrantThenStandby
    ReadyOnSuccess
    AuthorityNeverOverclaimed
    NoStrayCommand
PROPERTIES
    OnInitReturns
    StopsAreReset
CHECK_DEADLOCK FALSE
