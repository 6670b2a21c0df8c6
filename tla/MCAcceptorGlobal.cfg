\* Two plain sockets race for the last slot of the server.
CONSTANTS
    plain = plain
    other = other
    Sockets = {plain, other}
    Secure = {}
    Conn = {c1, c2}
    SocketMax <- Unlimited
    GlobalMax = 1
    Threads = 2
SPECIFICATION Spec
INVARIANTS
    GlobalLimit
CHECK_DEADLOCK FALSE
