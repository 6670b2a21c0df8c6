\* An accept that completed just before the stop.
CONSTANTS
    plain = plain
    other = other
    Sockets = {plain, other}
    Secure = {other}
    Conn = {c1, c2}
    SocketMax <- OneEach
    GlobalMax = 0
    Threads = 2
SPECIFICATION Spec
PROPERTIES
    NoMoreAccepted
CHECK_DEADLOCK FALSE
