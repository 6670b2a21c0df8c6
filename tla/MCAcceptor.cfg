\* Safety and liveness: a plain and an SSL socket, a limit of one connection on
\* the plain one and of one on the server; two threads.
CONSTANTS
    plain = plain
    other = other
    Sockets = {plain, other}
    Secure = {other}
    Conn = {c1, c2, c3}
    SocketMax <- OneOnFirst
    GlobalMax = 1
    Threads = 2
SPECIFICATION FairSpec
INVARIANTS
    TypeOK
    PlainSocketLimit
    OvershootBounded
    SlotsMatchClients
    StopReachesPlain
PROPERTIES
    StopEnds
    AcceptsAgain
CHECK_DEADLOCK FALSE
