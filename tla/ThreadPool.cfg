SPECIFICATION FairSpec
CONSTANTS
    NULL = NULL
    Worker = {w1, w2, w3}
    Task = {t1, t2, t3, t4}
    Endless = {t4}
INVARIANTS
    TaskInOnePlace
    NoSleepOverWork
    DrainedWhenDestroyed
PROPERTIES
    TasksReturn
    DestructorReturns
