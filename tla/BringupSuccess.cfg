\* The authority may be lost while on_init configures the robot.
SPECIFICATION Spec
CONSTANTS
    FaultStates = {"SAFE_STOP"}
    MaxDisturbances = 1
    MaxEvents = 2
    Mode = "virtual"
    ConnectRetries = 1
    AccessRetries = 3
PROPERTY SuccessHasAuthority
CHECK_DEADLOCK FALSE
