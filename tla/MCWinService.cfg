\* A stop and two interrogations, at any time.
CONSTANTS
    MaxInterrogate = 2
SPECIFICATION ServiceFairSpec
INVARIANTS
    CanBeStopped
PROPERTIES
    StopStopsServer
CHECK_DEADLOCK FALSE
