\* A single stop.
CONSTANTS
    MaxInterrogate = 0
SPECIFICATION ServiceSpec
INVARIANTS
    StoppedIsReported
CHECK_DEADLOCK FALSE
