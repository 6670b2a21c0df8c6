\* Starts that overlap or not, one of them in the foreground, and what they
\* leave.
CONSTANTS
    Proc = {p1, p2, p3, p4}
    Foreground = {p4}
SPECIFICATION Spec
INVARIANTS
    PidFileNamesDaemon
    CleanStopLeavesNoFile
CHECK_DEADLOCK FALSE
