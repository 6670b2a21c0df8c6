\* A start after a crash.
CONSTANTS
    Proc = {p1, p2}
    Foreground = {}
SPECIFICATION Spec
INVARIANTS
    RefusedOnlyWhileRunning
CHECK_DEADLOCK FALSE
