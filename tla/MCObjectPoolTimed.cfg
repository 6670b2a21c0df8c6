\* A get() of a pool with a timeout may return NULL: less is used than the
\* tests of such pools assert.
CONSTANTS
    Thread = {t1, t2, t3, t4}
    Obj = {o1, o2}
    Times = 2
SPECIFICATION PoolSpec
INVARIANT EveryTimedGetServed
CHECK_DEADLOCK FALSE
