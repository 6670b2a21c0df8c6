\* The tests of poolTest.cpp, with and without a timeout: four threads share
\* two objects.
CONSTANTS
    Thread = {t1, t2, t3, t4}
    Obj = {o1, o2}
    Times = 2
SPECIFICATION PoolFairSpec
INVARIANTS
    PoolTypeOK
    Exclusive
    NoLostWakeup
    PoolRestored
PROPERTIES
    ThreadsJoin
CHECK_DEADLOCK FALSE
