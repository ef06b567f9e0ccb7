SPECIFICATION AnsweredSpec
CONSTANTS
    MaxLaunches = 2
    MaxRelays = 2
CHECK_DEADLOCK FALSE
INVARIANTS
    TypeOK
    AtMostOneLateRelay
PROPERTIES
    SignalEndsProcess
