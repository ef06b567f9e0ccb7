SPECIFICATION Spec
CONSTANTS
    MaxLaunches = 2
    MaxRelays = 2
CHECK_DEADLOCK FALSE
PROPERTIES
    ExitBetweenTicks
